---- MODULE Spec2Model ----
(***************************************************************************)
(* Verification model of iceberg-rs: the table file listing (Table::files),*)
(* the DataFusion scan planner (DataFusionTable::scan / statistics) and    *)
(* the ViewBuilder commit protocols (filesystem and metastore).            *)
(*                                                                         *)
(* Option<T> is modelled as a sequence of length 0 (None) or 1 (Some(x)).  *)
(* Option<Value> inside a partition tuple is the string NoValue or a value.*)
(***************************************************************************)
EXTENDS Integers, Sequences, FiniteSets, TLC

\* ------------------------------------------------------------------ bounds
MaxManifests == 2        \* manifests in the table's manifest list
MaxAppend == 2           \* data files passed to one fast_append
MaxFiles == 4            \* data files committed to the table
NumTransactions == 2     \* concurrent Transaction commits
MaxExternal == 3         \* commits of other writers to the same table
NumWriters == 2          \* concurrent ViewBuilder commits

\* -------------------------------------------------------------- Option<T>
NoneOpt == <<>>
Some(x) == <<x>>
IsSome(o) == Len(o) = 1
Unwrap(o) == o[1]

Min(a, b) == IF a <= b THEN a ELSE b
Range(s) == {s[i] : i \in 1..Len(s)}
BoolVecs(n) == [1..n -> BOOLEAN]
Orderings(S) == {o \in [1..Cardinality(S) -> S] : \A i, j \in 1..Cardinality(S) : o[i] = o[j] => i = j}

RECURSIVE Flatten(_)
Flatten(ss) == IF ss = <<>> THEN <<>> ELSE Head(ss) \o Flatten(Tail(ss))

RECURSIVE SumSeq(_)
SumSeq(s) == IF s = <<>> THEN 0 ELSE Head(s) + SumSeq(Tail(s))

\* ------------------------------------------------------------- data model
\* Status of a manifest entry (enum Status, repr u8).
Existing == 0
Added == 1
Deleted == 2

\* Option<Value>::None inside a partition tuple, and ScalarValue::Null.
NoValue == "none"
ScalarNull == "Null"

\* The data files the environment offers to fast_append: an ordered
\* partition-value tuple (two partition fields) and a record count.
DataFileKinds ==
    { [partition |-> <<"a", NoValue>>, record_count |-> 1],
      [partition |-> <<NoValue, "a">>, record_count |-> 2] }

\* A ManifestEntry; file_path identifies the data file.
ManifestEntry(path, kind, status) ==
    [file_path |-> path, partition_values |-> kind.partition,
     record_count |-> kind.record_count, status |-> status]

RowsWithStatus(entries, status) ==
    SumSeq([i \in 1..Len(entries) |->
              IF entries[i].status = status THEN entries[i].record_count ELSE 0])

CountWithStatus(entries, status) ==
    Cardinality({i \in 1..Len(entries) : entries[i].status = status})

\* A ManifestFile of the manifest list together with the entries stored in
\* the manifest it points at.  known = FALSE gives the optional row counts
\* as null (a manifest list written without them).
ManifestFile(entries, known) ==
    [entries |-> entries,
     added_files_count |-> CountWithStatus(entries, Added),
     added_rows_count |-> IF known THEN Some(RowsWithStatus(entries, Added)) ELSE NoneOpt,
     existing_rows_count |-> IF known THEN Some(RowsWithStatus(entries, Existing)) ELSE NoneOpt,
     deleted_rows_count |-> IF known THEN Some(RowsWithStatus(entries, Deleted)) ELSE NoneOpt]

VARIABLES
    manifests,          \* Table::manifests(): the current manifest list
    appended,           \* history: file paths in the order they were committed
    op,                 \* the call whose result the caller holds, or "ready"
    filter,             \* Option<Vec<bool>> argument of the last Table::files
    filters_empty,      \* scan: filters.is_empty()
    manifests_to_prune, \* scan: result of prune(&PruneManifests)
    files_to_prune,     \* scan: result of prune(&PruneDataFiles)
    files_ret,          \* Vec<ManifestEntry> returned by the last Table::files
    plan                \* FileScanConfig built by the last scan

tableVars == <<manifests, appended, op, filter, filters_empty,
               manifests_to_prune, files_to_prune, files_ret, plan>>

VARIABLES
    store,              \* ObjectStore: path -> Option<file content>
    catalog,            \* Catalog: identifier -> Option<metadata path>
    pc,                 \* position of each ViewBuilder in new / commit
    builder,            \* the ViewBuilder each writer holds
    result,             \* what commit returned to each writer
    view,               \* metadata of the View returned by a successful commit
    oplog               \* history: object-store calls each commit has made

viewVars == <<store, catalog, pc, builder, result, view, oplog>>

VARIABLES
    fn,                 \* the function last applied to arg, or "ready"
    arg,                \* the value a caller passes to a function
    ret                 \* what the function returned

callVars == <<fn, arg, ret>>

VARIABLES
    table,              \* Catalog: the metadata the table's pointer names
    txn                 \* each Transaction: position in commit, base, attempts

txnVars == <<table, txn>>

vars == <<tableVars, viewVars, callVars, txnVars>>

EmptyPlan == [file_groups |-> <<>>, num_rows |-> NoneOpt, is_exact |-> FALSE]

\* ------------------------------------------------------------ Table::files
\* Mutant of filter_manifest: the flag is read as "skip this manifest".
filter_manifest_inverted(manifest, predicate) ==
    IF predicate THEN NoneOpt ELSE Some(manifest)

filter_manifest(manifest, predicate) ==
    IF predicate THEN Some(manifest) ELSE NoneOpt

\* Mutant of files: the manifests are read newest first.
files_newest_first(ms, flt) ==
    LET n == IF IsSome(flt) THEN Min(Len(ms), Len(Unwrap(flt))) ELSE Len(ms)
        flag(i) == IF IsSome(flt) THEN Unwrap(flt)[i] ELSE TRUE
        selected == Flatten([i \in 1..n |-> filter_manifest(ms[n + 1 - i], flag(n + 1 - i))])
    IN Flatten([j \in 1..Len(selected) |-> selected[j].entries])

\* zip stops at the shorter of the two iterators; repeat(true) is endless.
files(ms, flt) ==
    LET n == IF IsSome(flt) THEN Min(Len(ms), Len(Unwrap(flt))) ELSE Len(ms)
        flag(i) == IF IsSome(flt) THEN Unwrap(flt)[i] ELSE TRUE
        selected == Flatten([i \in 1..n |-> filter_manifest(ms[i], flag(i))])
    IN Flatten([j \in 1..Len(selected) |-> selected[j].entries])


Table_files ==
    /\ op = "ready"
    /\ \E flt \in {NoneOpt} \cup {Some(v) : v \in UNION {BoolVecs(n) : n \in 0..MaxManifests}} :
        /\ op' = "files"
        /\ filter' = flt
        /\ files_ret' = files(manifests, flt)
        /\ filters_empty' = TRUE
        /\ manifests_to_prune' = <<>>
        /\ files_to_prune' = <<>>
        /\ plan' = EmptyPlan
        /\ UNCHANGED <<manifests, appended>>
      /\ UNCHANGED <<viewVars, callVars, txnVars>>
        /\ UNCHANGED <<viewVars, callVars, txnVars>>

\* ------------------------------------------------- DataFusionTable::scan
\* Mutant of to_scalar: the Some arm loses the value.
to_scalar_drops_value(value) == ScalarNull

\* Option<Value> -> ScalarValue for one partition value.
to_scalar(value) == IF value = NoValue THEN ScalarNull ELSE value

partitioned_file(entry) ==
    [location |-> entry.file_path,
     partition_values |-> [i \in 1..Len(entry.partition_values) |->
                              to_scalar(entry.partition_values[i])]]

\* Mutant of push_file: insert replaces the group instead of extending it.
push_file_replaces(groups, file) ==
    IF file.partition_values \in DOMAIN groups
    THEN [groups EXCEPT ![file.partition_values] = <<file>>]
    ELSE groups @@ (file.partition_values :> <<file>>)

\* file_groups.entry(file.partition_values.clone()).or_default().push(file)
push_file(groups, file) ==
    IF file.partition_values \in DOMAIN groups
    THEN [groups EXCEPT ![file.partition_values] = Append(@, file)]
    ELSE groups @@ (file.partition_values :> <<file>>)

\* The test guarding the insertion of a zipped (file, prune_file) pair.
keep_file(prune_file) == ~prune_file

\* files.into_iter().zip(files_to_prune).for_each(..), from position i on.
RECURSIVE group_pruned(_, _, _, _)
group_pruned(groups, fs, prune, i) ==
    IF i > Min(Len(fs), Len(prune)) THEN groups
    ELSE group_pruned(IF keep_file(prune[i])
                      THEN push_file(groups, partitioned_file(fs[i]))
                      ELSE groups,
                      fs, prune, i + 1)

\* files.into_iter().for_each(..) of the branch without a predicate.
RECURSIVE group_all(_, _, _)
group_all(groups, fs, i) ==
    IF i > Len(fs) THEN groups
    ELSE group_all(push_file(groups, partitioned_file(fs[i])), fs, i + 1)

\* DataFusionTable::statistics: a fold over self.manifests().
RECURSIVE statistics(_)
statistics(ms) ==
    IF ms = <<>> THEN [num_rows |-> Some(0), is_exact |-> TRUE]
    ELSE LET acc == statistics(SubSeq(ms, 1, Len(ms) - 1))
             x == ms[Len(ms)]
         IN [num_rows |-> IF IsSome(acc.num_rows)
                          THEN Some(Unwrap(acc.num_rows) + x.added_files_count)
                          ELSE NoneOpt,
             is_exact |-> TRUE]

\* FileScanConfig: file_groups.into_values().collect() has the HashMap's
\* iteration order, which is any order of its keys.
file_scan_config(groups, ord, stats) ==
    [file_groups |-> [i \in 1..Len(ord) |-> groups[ord[i]]],
     num_rows |-> stats.num_rows,
     is_exact |-> stats.is_exact]

scan_filtered ==
    /\ op = "ready"
    /\ \E mvec \in BoolVecs(Len(manifests)) :
      LET fs == files(manifests, Some(mvec)) IN
      \E fvec \in BoolVecs(Len(fs)) :
        LET groups == group_pruned(<<>>, fs, fvec, 1) IN
        \E ord \in Orderings(DOMAIN groups) :
          /\ op' = "scan"
          /\ filters_empty' = FALSE
          /\ manifests_to_prune' = mvec
          /\ filter' = Some(mvec)
          /\ files_ret' = fs
          /\ files_to_prune' = fvec
          /\ plan' = file_scan_config(groups, ord, statistics(manifests))
          /\ UNCHANGED <<manifests, appended>>
      /\ UNCHANGED <<viewVars, callVars, txnVars>>
          /\ UNCHANGED <<viewVars, callVars, txnVars>>
        /\ UNCHANGED <<viewVars, callVars, txnVars>>

scan_unfiltered ==
    /\ op = "ready"
    /\ LET fs == files(manifests, NoneOpt)
           groups == group_all(<<>>, fs, 1) IN
       \E ord \in Orderings(DOMAIN groups) :
      /\ op' = "scan"
      /\ filters_empty' = TRUE
      /\ manifests_to_prune' = <<>>
      /\ filter' = NoneOpt
      /\ files_ret' = fs
      /\ files_to_prune' = <<>>
      /\ plan' = file_scan_config(groups, ord, statistics(manifests))
      /\ UNCHANGED <<manifests, appended>>
      /\ UNCHANGED <<viewVars, callVars, txnVars>>

scan == scan_filtered \/ scan_unfiltered

\* ------------------------------------------------ Transaction::fast_append
\* Adds the files as one new manifest after the manifests carried over.
fast_append ==
    /\ op = "ready"
    /\ Len(manifests) < MaxManifests
    /\ \E n \in 1..MaxAppend : \E kinds \in [1..n -> DataFileKinds] :
         LET entries == [i \in 1..n |-> ManifestEntry(Len(appended) + i, kinds[i], Added)]
         IN /\ Len(appended) + n <= MaxFiles
            /\ manifests' = Append(manifests, ManifestFile(entries, TRUE))
            /\ appended' = appended \o [i \in 1..n |-> Len(appended) + i]
    /\ op' = "ready"
    /\ filter' = NoneOpt
    /\ filters_empty' = TRUE
    /\ manifests_to_prune' = <<>>
    /\ files_to_prune' = <<>>
    /\ files_ret' = <<>>
    /\ plan' = EmptyPlan
    /\ UNCHANGED <<viewVars, callVars, txnVars>>

\* The caller drops the Vec<ManifestEntry> or the plan it was given.
drop_result ==
    /\ op \in {"files", "scan"}
    /\ op' = "ready"
    /\ filter' = NoneOpt
    /\ filters_empty' = TRUE
    /\ manifests_to_prune' = <<>>
    /\ files_to_prune' = <<>>
    /\ files_ret' = <<>>
    /\ plan' = EmptyPlan
    /\ UNCHANGED <<manifests, appended>>
    /\ UNCHANGED <<viewVars, callVars, txnVars>>

\* Tables that Table::load_file_system_table can find in the object store:
\* a new table, a table whose manifest list has no row counts, and a table
\* whose manifest carries an existing and a deleted entry.
InitialTables ==
    LET k1 == [partition |-> <<"a", NoValue>>, record_count |-> 1]
        k2 == [partition |-> <<NoValue, "a">>, record_count |-> 2]
    IN { <<>>,
         << ManifestFile(<<ManifestEntry(1, k2, Added)>>, FALSE) >>,
         << ManifestFile(<<ManifestEntry(1, k1, Existing), ManifestEntry(2, k2, Deleted)>>, TRUE) >> }

PathsOf(entries) == [i \in 1..Len(entries) |-> entries[i].file_path]

AllEntries(ms) == Flatten([i \in 1..Len(ms) |-> ms[i].entries])

TableInit ==
    /\ manifests \in InitialTables
    /\ appended = PathsOf(AllEntries(manifests))
    /\ op = "ready"
    /\ filter = NoneOpt
    /\ filters_empty = TRUE
    /\ manifests_to_prune = <<>>
    /\ files_to_prune = <<>>
    /\ files_ret = <<>>
    /\ plan = EmptyPlan

\* ------------------------------------------------------------ ViewBuilder
Writers == 1..NumWriters
Locations == {"l1", "l2"}
Sqls == {"s1", "s2"}
Identifiers == {"i1", "i2"}

\* The SchemaV2 values passed to the constructors; only schema_id matters.
Schemas == {[schema_id |-> 1], [schema_id |-> 2]}

\* Object paths <location>/metadata/<name>: the versioned file v<N>, the
\* temp file <uuid> and the metastore file <N>-<uuid>; the uuid drawn by
\* Uuid::new_v4() is unique to the commit and is the writer's number.
final_path(location, version) == <<location, "v", version>>
temp_path(location, uuid) == <<location, "uuid", uuid>>
metastore_path(location, version, uuid) == <<location, "version-uuid", uuid>>

Paths ==
    {final_path(l, 1) : l \in Locations}
      \cup {temp_path(l, w) : l \in Locations, w \in Writers}
      \cup {metastore_path(l, 1, w) : l \in Locations, w \in Writers}

\* Mutant of ViewMetadataV1: the version log is left empty.
ViewMetadataV1_empty_log(sql, location, schema) ==
    [location |-> location,
     schemas |-> Some(<<schema>>),
     current_schema_id |-> Some(1),
     versions |-> <<[version_id |-> 1,
                     summary |-> [operation |-> "create", engine_version |-> NoneOpt],
                     representations |-> <<[sql |-> sql, dialect |-> "ANSI"]>>]>>,
     current_version_id |-> 1,
     version_log |-> <<>>,
     properties |-> NoneOpt]

\* ViewMetadataV1 as the two constructors build it: one Version with one
\* SQL representation, one VersionLogStruct and the schema passed in.  The
\* two timestamp_ms fields, read from the clock, are left out.
ViewMetadataV1(sql, location, schema) ==
    [location |-> location,
     schemas |-> Some(<<schema>>),
     current_schema_id |-> Some(1),
     versions |-> <<[version_id |-> 1,
                     summary |-> [operation |-> "create", engine_version |-> NoneOpt],
                     representations |-> <<[sql |-> sql, dialect |-> "ANSI"]>>]>>,
     current_version_id |-> 1,
     version_log |-> <<[version_id |-> 1]>>,
     properties |-> NoneOpt]

NoBuilder == [table_type |-> "none", identifier |-> "none",
              metadata |-> ViewMetadataV1("none", "none", [schema_id |-> 0])]

new_filesystem_view(w) ==
    /\ pc[w] = "new"
    /\ \E sql \in Sqls, location \in Locations, schema \in Schemas :
         builder' = [builder EXCEPT ![w] =
                       [table_type |-> "FileSystem", identifier |-> "none",
                        metadata |-> ViewMetadataV1(sql, location, schema)]]
    /\ pc' = [pc EXCEPT ![w] = "built"]
    /\ UNCHANGED <<store, catalog, result, view, oplog>>
    /\ UNCHANGED <<tableVars, callVars, txnVars>>

new_metastore_view(w) ==
    /\ pc[w] = "new"
    /\ \E sql \in Sqls, location \in Locations, schema \in Schemas,
          identifier \in Identifiers :
         builder' = [builder EXCEPT ![w] =
                       [table_type |-> "Metastore", identifier |-> identifier,
                        metadata |-> ViewMetadataV1(sql, location, schema)]]
    /\ pc' = [pc EXCEPT ![w] = "built"]
    /\ UNCHANGED <<store, catalog, result, view, oplog>>
    /\ UNCHANGED <<tableVars, callVars, txnVars>>

\* ---------------------------------- ViewBuilder::commit, TableType::FileSystem
fs_temp(w) == temp_path(builder[w].metadata.location, w)
fs_final(w) == final_path(builder[w].metadata.location, builder[w].metadata.current_version_id)

\* View::load_file_system_view: the view read back from the versioned file.
load_file_system_view(location) == store[final_path(location, 1)]

\* object_store.put(&temp_path, metadata_json)
fs_put(w) ==
    /\ builder[w].table_type = "FileSystem"
    /\ pc[w] = "built"
    /\ store' = [store EXCEPT ![fs_temp(w)] = Some(builder[w].metadata)]
    /\ oplog' = [oplog EXCEPT ![w] = Append(@, <<"put", fs_temp(w)>>)]
    /\ pc' = [pc EXCEPT ![w] = "put"]
    /\ UNCHANGED <<catalog, builder, result, view>>
    /\ UNCHANGED <<tableVars, callVars, txnVars>>

\* Mutant of fs_copy_if_not_exists: a plain copy that overwrites.
fs_copy_overwrites(w) ==
    /\ builder[w].table_type = "FileSystem"
    /\ pc[w] = "put"
    /\ oplog' = [oplog EXCEPT ![w] = Append(@, <<"copy_if_not_exists", fs_temp(w), fs_final(w)>>)]
    /\ store' = [store EXCEPT ![fs_final(w)] = store[fs_temp(w)]]
    /\ pc' = [pc EXCEPT ![w] = "copied"]
    /\ UNCHANGED <<catalog, builder, result, view>>
    /\ UNCHANGED <<tableVars, callVars, txnVars>>

\* Mutant of fs_copy_if_not_exists: the error of the copy is not propagated.
fs_copy_error_ignored(w) ==
    /\ builder[w].table_type = "FileSystem"
    /\ pc[w] = "put"
    /\ oplog' = [oplog EXCEPT ![w] = Append(@, <<"copy_if_not_exists", fs_temp(w), fs_final(w)>>)]
    /\ store' = IF IsSome(store[fs_final(w)]) THEN store
                ELSE [store EXCEPT ![fs_final(w)] = store[fs_temp(w)]]
    /\ pc' = [pc EXCEPT ![w] = "copied"]
    /\ UNCHANGED <<catalog, builder, result, view>>
    /\ UNCHANGED <<tableVars, callVars, txnVars>>

\* object_store.copy_if_not_exists(&temp_path, &final_path)?
fs_copy_if_not_exists(w) ==
    /\ builder[w].table_type = "FileSystem"
    /\ pc[w] = "put"
    /\ oplog' = [oplog EXCEPT ![w] = Append(@, <<"copy_if_not_exists", fs_temp(w), fs_final(w)>>)]
    /\ IF IsSome(store[fs_final(w)])
       THEN /\ pc' = [pc EXCEPT ![w] = "failed"]
            /\ result' = [result EXCEPT ![w] = "Err"]
            /\ UNCHANGED store
       ELSE /\ store' = [store EXCEPT ![fs_final(w)] = store[fs_temp(w)]]
            /\ pc' = [pc EXCEPT ![w] = "copied"]
            /\ UNCHANGED result
    /\ UNCHANGED <<catalog, builder, view>>
    /\ UNCHANGED <<tableVars, callVars, txnVars>>

\* object_store.delete(&temp_path)
fs_delete(w) ==
    /\ builder[w].table_type = "FileSystem"
    /\ pc[w] = "copied"
    /\ store' = [store EXCEPT ![fs_temp(w)] = NoneOpt]
    /\ oplog' = [oplog EXCEPT ![w] = Append(@, <<"delete", fs_temp(w)>>)]
    /\ pc' = [pc EXCEPT ![w] = "deleted"]
    /\ UNCHANGED <<catalog, builder, result, view>>
    /\ UNCHANGED <<tableVars, callVars, txnVars>>

\* let view = View::load_file_system_view(location, &object_store)?; Ok(view)
fs_load(w) ==
    /\ builder[w].table_type = "FileSystem"
    /\ pc[w] = "deleted"
    /\ view' = [view EXCEPT ![w] = load_file_system_view(builder[w].metadata.location)]
    /\ result' = [result EXCEPT ![w] = "Ok"]
    /\ pc' = [pc EXCEPT ![w] = "done"]
    /\ UNCHANGED <<store, catalog, builder, oplog>>
    /\ UNCHANGED <<tableVars, callVars, txnVars>>

\* ------------------------- ViewBuilder::commit, object-store calls that fail
\* The object-store call the commit is about to make returns an error for a
\* reason of the store (put, copy_if_not_exists, delete, or the get inside
\* load_file_system_view); `?` returns it to the caller of commit.
fs_io_failure(w) ==
    /\ builder[w].table_type = "FileSystem"
    /\ pc[w] \in {"built", "put", "copied", "deleted"}
    /\ oplog' = [oplog EXCEPT ![w] =
                   Append(@, CASE pc[w] = "built" -> <<"put", fs_temp(w)>>
                               [] pc[w] = "put" ->
                                    <<"copy_if_not_exists", fs_temp(w), fs_final(w)>>
                               [] pc[w] = "copied" -> <<"delete", fs_temp(w)>>
                               [] pc[w] = "deleted" -> <<"load", fs_final(w)>>)]
    /\ result' = [result EXCEPT ![w] = "Err"]
    /\ pc' = [pc EXCEPT ![w] = "failed"]
    /\ UNCHANGED <<store, catalog, builder, view>>
    /\ UNCHANGED <<tableVars, callVars, txnVars>>

\* ----------------------------------- ViewBuilder::commit, TableType::Metastore
ms_path(w) == metastore_path(builder[w].metadata.location, builder[w].metadata.current_version_id, w)

\* Mutant of ms_put: the put is started but not awaited.
ms_put_not_awaited(w) ==
    /\ builder[w].table_type = "Metastore"
    /\ pc[w] = "built"
    /\ oplog' = [oplog EXCEPT ![w] = Append(@, <<"put", ms_path(w)>>)]
    /\ pc' = [pc EXCEPT ![w] = "written"]
    /\ UNCHANGED <<store, catalog, builder, result, view>>
    /\ UNCHANGED <<tableVars, callVars, txnVars>>

\* object_store.put(&path, metadata_json)
ms_put(w) ==
    /\ builder[w].table_type = "Metastore"
    /\ pc[w] = "built"
    /\ store' = [store EXCEPT ![ms_path(w)] = Some(builder[w].metadata)]
    /\ oplog' = [oplog EXCEPT ![w] = Append(@, <<"put", ms_path(w)>>)]
    /\ pc' = [pc EXCEPT ![w] = "written"]
    /\ UNCHANGED <<catalog, builder, result, view>>
    /\ UNCHANGED <<tableVars, callVars, txnVars>>

\* Catalog::register_table: creates the entry, fails when the identifier
\* already resolves; ok = FALSE is a failure of the catalog itself.
register_table(cat, identifier, path, ok) ==
    IF ok /\ ~IsSome(cat[identifier])
    THEN [cat EXCEPT ![identifier] = Some(path)]
    ELSE cat

\* catalog.register_table(identifier, path.as_ref()).await?
ms_register(w) ==
    /\ builder[w].table_type = "Metastore"
    /\ pc[w] = "written"
    /\ \E ok \in BOOLEAN :
         /\ catalog' = register_table(catalog, builder[w].identifier, ms_path(w), ok)
         /\ IF catalog' # catalog
            THEN /\ view' = [view EXCEPT ![w] = store[ms_path(w)]]
                 /\ result' = [result EXCEPT ![w] = "Ok"]
                 /\ pc' = [pc EXCEPT ![w] = "done"]
            ELSE /\ result' = [result EXCEPT ![w] = "Err"]
                 /\ pc' = [pc EXCEPT ![w] = "failed"]
                 /\ UNCHANGED view
    /\ UNCHANGED <<store, builder, oplog>>
    /\ UNCHANGED <<tableVars, callVars, txnVars>>

\* The caller drops the commit future at a suspension point: before the put
\* or between the put and register_table.
ms_cancel(w) ==
    /\ builder[w].table_type = "Metastore"
    /\ pc[w] \in {"built", "written"}
    /\ pc' = [pc EXCEPT ![w] = "cancelled"]
    /\ UNCHANGED <<store, catalog, builder, result, view, oplog>>
    /\ UNCHANGED <<tableVars, callVars, txnVars>>

ViewInit ==
    /\ store = [p \in Paths |-> NoneOpt]
    /\ catalog = [i \in Identifiers |-> NoneOpt]
    /\ pc = [w \in Writers |-> "new"]
    /\ builder = [w \in Writers |-> NoBuilder]
    /\ result = [w \in Writers |-> "none"]
    /\ view = [w \in Writers |-> NoneOpt]
    /\ oplog = [w \in Writers |-> <<>>]

\* ------------------------------------------------------- Result<T, Error>
Ok(x) == [ok |-> TRUE, val |-> x]

Err(e) == [ok |-> FALSE, err |-> e]

\* -------------------------------------------------------------- Namespace
\* Longest level sequence passed to Namespace::try_new.
MaxLevels == 3

SeqsUpTo(S, n) == UNION {[1..k -> S] : k \in 0..n}

try_new_checks_first_only(levels) ==
    IF levels # <<>> /\ levels[1] = ""
    THEN Err("Error: Cannot create a namespace with an empty entry.")
    ELSE Ok([levels |-> levels])

try_new(levels) ==
    IF \E i \in DOMAIN levels : levels[i] = ""
    THEN Err("Error: Cannot create a namespace with an empty entry.")
    ELSE Ok([levels |-> levels])

empty == [levels |-> <<>>]

levels(self) == self.levels

len(self) == Len(self.levels)

Namespace_try_new ==
    /\ fn = "ready"
    /\ fn' = "try_new"
    /\ ret' = try_new(arg)
    /\ UNCHANGED <<arg, tableVars, viewVars, txnVars>>

Namespace_empty ==
    /\ fn = "ready"
    /\ fn' = "empty"
    /\ arg' = <<>>
    /\ ret' = empty
    /\ UNCHANGED <<tableVars, viewVars, txnVars>>

\* levels() of the Namespace the caller holds after try_new or empty.
Namespace_levels ==
    /\ \/ fn = "empty"
       \/ fn = "try_new" /\ ret.ok
    /\ fn' = IF fn = "empty" THEN "empty.levels" ELSE "try_new.levels"
    /\ ret' = levels(IF fn = "empty" THEN ret ELSE ret.val)
    /\ UNCHANGED <<arg, tableVars, viewVars, txnVars>>

\* len() of the Namespace the caller holds after try_new or empty.
Namespace_len ==
    /\ \/ fn = "empty"
       \/ fn = "try_new" /\ ret.ok
    /\ fn' = IF fn = "empty" THEN "empty.len" ELSE "try_new.len"
    /\ ret' = len(IF fn = "empty" THEN ret ELSE ret.val)
    /\ UNCHANGED <<arg, tableVars, viewVars, txnVars>>

\* ----------------------------------------------------------------- String
\* A header String is a sequence of code points below 2048; the bytes a
\* writer stores for it are its UTF-8 encoding.
RECURSIVE into_bytes(_)
into_bytes(s) ==
    IF s = <<>> THEN <<>>
    ELSE (IF Head(s) < 128 THEN <<Head(s)>>
          ELSE <<192 + (Head(s) \div 64), 128 + (Head(s) % 64)>>)
         \o into_bytes(Tail(s))

RECURSIVE from_utf8(_)
from_utf8(bytes) ==
    IF bytes = <<>> THEN Ok(<<>>)
    ELSE IF bytes[1] < 128
    THEN LET rest == from_utf8(Tail(bytes))
         IN  IF rest.ok THEN Ok(<<bytes[1]>> \o rest.val) ELSE rest
    ELSE IF /\ bytes[1] >= 194 /\ bytes[1] < 224
            /\ Len(bytes) >= 2 /\ bytes[2] >= 128 /\ bytes[2] < 192
    THEN LET rest == from_utf8(Tail(Tail(bytes)))
         IN  IF rest.ok
             THEN Ok(<<(bytes[1] - 192) * 64 + (bytes[2] - 128)>> \o rest.val)
             ELSE rest
    ELSE Err("invalid utf-8 sequence")

\* ------------------------------------------------------------ Avro schema
\* A parsed Avro schema: a primitive ("int", "long", "string", "boolean",
\* "bytes"), the union ["null", T], an array or a record with named fields
\* in declaration order.
Prim(name) == [k |-> name]

Nullable(T) == [k |-> "union", of |-> T]

Array(T) == [k |-> "array", items |-> T]

Field(name, type) == [name |-> name, type |-> type]

Record(name, fields) == [k |-> "record", name |-> name, fields |-> fields]

\* ------------------------------------------------------------- Avro value
\* apache_avro::types::Value: the tag is Null, Int, Long, String, Boolean,
\* Bytes, Union (of the value of its branch), Array (of values) or Record
\* (of named values); Panic stands for a serialization that unwound.
V(tag, v) == [t |-> tag, v |-> v]

\* Position of the field called name in a sequence of named fields, or 0.
FieldIndex(fs, name) ==
    IF \E i \in DOMAIN fs : fs[i].name = name
    THEN CHOOSE i \in DOMAIN fs :
            /\ fs[i].name = name
            /\ \A j \in DOMAIN fs : fs[j].name = name => i <= j
    ELSE 0

\* Value::validate: the value has the shape the schema describes.
RECURSIVE validate(_, _)
validate(value, schema) ==
    CASE schema.k = "int" -> value.t = "Int"
      [] schema.k = "long" -> value.t = "Long"
      [] schema.k = "string" -> value.t = "String"
      [] schema.k = "boolean" -> value.t = "Boolean"
      [] schema.k = "bytes" -> value.t = "Bytes"
      [] schema.k = "union" ->
           LET inner == IF value.t = "Union" THEN value.v ELSE value
           IN  inner.t = "Null" \/ validate(inner, schema.of)
      [] schema.k = "array" ->
           /\ value.t = "Array"
           /\ \A i \in DOMAIN value.v : validate(value.v[i], schema.items)
      [] schema.k = "record" ->
           /\ value.t = "Record"
           /\ Len(value.v) = Len(schema.fields)
           /\ \A i \in DOMAIN schema.fields :
                LET at == FieldIndex(value.v, schema.fields[i].name)
                IN  /\ at # 0
                    /\ validate(value.v[at].value, schema.fields[i].type)

\* Binary encoding: a record is written as its field values in the order
\* the value holds them, without their names.
RECURSIVE encode(_)
encode(value) ==
    CASE value.t = "Record" ->
           V("Record", [i \in DOMAIN value.v |-> encode(value.v[i].value)])
      [] value.t = "Array" -> V("Array", [i \in DOMAIN value.v |-> encode(value.v[i])])
      [] value.t = "Union" -> V("Union", encode(value.v))
      [] OTHER -> value

\* Binary decoding under the writer schema: the fields of a record are read
\* in schema order and take the schema's names.  Bytes written for one type
\* and read as another do not give back a value.
RECURSIVE decodable(_, _)
decodable(wire, schema) ==
    CASE schema.k = "int" -> wire.t = "Int"
      [] schema.k = "long" -> wire.t = "Long"
      [] schema.k = "string" -> wire.t = "String"
      [] schema.k = "boolean" -> wire.t = "Boolean"
      [] schema.k = "bytes" -> wire.t = "Bytes"
      [] schema.k = "union" ->
           /\ wire.t = "Union"
           /\ wire.v.t = "Null" \/ decodable(wire.v, schema.of)
      [] schema.k = "array" ->
           /\ wire.t = "Array"
           /\ \A i \in DOMAIN wire.v : decodable(wire.v[i], schema.items)
      [] schema.k = "record" ->
           /\ wire.t = "Record"
           /\ Len(wire.v) = Len(schema.fields)
           /\ \A i \in DOMAIN wire.v :
                decodable(wire.v[i], schema.fields[i].type)

RECURSIVE decode(_, _)
decode(wire, schema) ==
    CASE schema.k = "union" ->
           V("Union", IF wire.v.t = "Null" THEN V("Null", <<>>) ELSE decode(wire.v, schema.of))
      [] schema.k = "array" ->
           V("Array", [i \in DOMAIN wire.v |-> decode(wire.v[i], schema.items)])
      [] schema.k = "record" ->
           V("Record", [i \in DOMAIN wire.v |->
                      [name |-> schema.fields[i].name,
                       value |-> decode(wire.v[i], schema.fields[i].type)]])
      [] OTHER -> wire

\* ------------------------------------------------------------- Rust types
\* The shape of a Rust type as its serde implementation presents it: i32,
\* i64, bool, String, ByteBuf, FileFormat, PartitionValues and Value by name.
Ty(name) == [k |-> name]

\* An enum with #[repr(u8)] and Serialize_repr / Deserialize_repr.
TRepr(discriminants) == [k |-> "repr", values |-> discriminants]

TOption(T) == [k |-> "Option", of |-> T]

TVec(T) == [k |-> "Vec", of |-> T]

TAvroMap(T) == [k |-> "AvroMap", of |-> T]

SerdeField(name, ty) == [name |-> name, ty |-> ty]

TStruct(fields) == [k |-> "struct", fields |-> fields]

\* ------------------------------------------------------------ types::Value
\* A partition value: Value::Int(i32) is [t |-> "Int", i |-> n],
\* Value::Long(i64) is [t |-> "Long", l |-> n] and Value::String is
\* [t |-> "String", s |-> text].
Value_serialize(x) ==
    CASE x.t = "Int" -> V("Int", x.i)
      [] x.t = "Long" -> V("Long", x.l)
      [] x.t = "String" -> V("String", x.s)

Value_deserialize(value) ==
    CASE value.t = "Int" -> Ok([t |-> "Int", i |-> value.v])
      [] value.t = "Long" -> Ok([t |-> "Long", l |-> value.v])
      [] value.t = "String" -> Ok([t |-> "String", s |-> value.v])
      [] OTHER -> Err("data did not match any variant of Value")

\* -------------------------------------------------------------- FileFormat
FileFormat_serialize(self) ==
    CASE self = "Avro" -> V("String", "AVRO")
      [] self = "Orc" -> V("String", "ORC")
      [] self = "Parquet" -> V("String", "PARQUET")

FileFormat_deserialize(value) ==
    IF value.t # "String" THEN Err("invalid type: expected a string")
    ELSE IF value.v = "AVRO" THEN Ok("Avro")
    ELSE IF value.v = "ORC" THEN Ok("Orc")
    ELSE IF value.v = "PARQUET" THEN Ok("Parquet")
    ELSE Err("Invalid data file format.")

\* --------------------------------------------------------- PartitionValues
\* PartitionValues { fields, lookup }: lookup maps a name to the 0-based
\* index of its value in fields (fields[i] of the code is fields[i + 1] here).
\* BTreeMap::insert replaces the index of a key that is already present.
insert(lookup, key, index) ==
    [k \in DOMAIN lookup \cup {key} |-> IF k = key THEN index ELSE lookup[k]]

RECURSIVE from_iter(_)
from_iter(iter) ==
    IF iter = <<>> THEN [fields |-> <<>>, lookup |-> <<>>]
    ELSE LET n == Len(iter)
             init == from_iter(SubSeq(iter, 1, n - 1))
         IN  [fields |-> Append(init.fields, iter[n][2]),
              lookup |-> insert(init.lookup, iter[n][1], n - 1)]

\* Keys of the lookup that map to index i, in BTreeMap order there is at
\* most one because every index is inserted once.
KeysAt(self, i) == {k \in DOMAIN self.lookup : self.lookup[k] = i}

RECURSIVE to_value(_, _)
RECURSIVE from_value(_, _)

PartitionValues_serialize_rotated(self) ==
    IF \E i \in 0..(Len(self.fields) - 1) : KeysAt(self, i) = {}
    THEN V("Panic", <<>>)
    ELSE V("Record",
           [p \in DOMAIN self.fields |->
              [name |-> CHOOSE k \in KeysAt(self, p % Len(self.fields)) : TRUE,
               value |-> to_value(TOption(Ty("Value")), self.fields[p])]])

\* serialize_field of every value under the key whose index it has; the
\* unwrap() of a missing key unwinds.
PartitionValues_serialize(self) ==
    IF \E i \in 0..(Len(self.fields) - 1) : KeysAt(self, i) = {}
    THEN V("Panic", <<>>)
    ELSE V("Record",
           [p \in DOMAIN self.fields |->
              [name |-> CHOOSE k \in KeysAt(self, p - 1) : TRUE,
               value |-> to_value(TOption(Ty("Value")), self.fields[p])]])

RECURSIVE visit_map(_)
visit_map(map) ==
    IF map = <<>> THEN Ok([fields |-> <<>>, lookup |-> <<>>])
    ELSE LET n == Len(map)
             init == visit_map(SubSeq(map, 1, n - 1))
             next_value == from_value(TOption(Ty("Value")), map[n].value)
         IN  IF ~init.ok THEN init
             ELSE IF ~next_value.ok THEN next_value
             ELSE Ok([fields |-> Append(init.val.fields, next_value.val),
                      lookup |-> insert(init.val.lookup, map[n].name, n - 1)])

PartitionValues_deserialize(value) ==
    IF value.t = "Record" THEN visit_map(value.v)
    ELSE Err("invalid type: expected map")

\* ---------------------------------------------- apache_avro::to_value (serde)
\* An AvroMap is written as the array of its KeyValue structs, in the order
\* HashMap iteration visits the keys.
to_value(ty, x) ==
    CASE ty.k = "repr" -> V("Int", x)
      [] ty.k = "i32" -> V("Int", x)
      [] ty.k = "i64" -> V("Long", x)
      [] ty.k = "bool" -> V("Boolean", x)
      [] ty.k = "String" -> V("String", x)
      [] ty.k = "ByteBuf" -> V("Bytes", x)
      [] ty.k = "Value" -> Value_serialize(x)
      [] ty.k = "FileFormat" -> FileFormat_serialize(x)
      [] ty.k = "PartitionValues" -> PartitionValues_serialize(x)
      [] ty.k = "Option" ->
           V("Union", IF IsSome(x) THEN to_value(ty.of, Unwrap(x))
                      ELSE V("Null", <<>>))
      [] ty.k = "Vec" -> V("Array", [i \in DOMAIN x |-> to_value(ty.of, x[i])])
      [] ty.k = "AvroMap" ->
           LET keys == CHOOSE ord \in Orderings(DOMAIN x) : TRUE
           IN  V("Array",
                 [i \in DOMAIN keys |->
                    V("Record", <<[name |-> "key", value |-> V("Int", keys[i])],
                                  [name |-> "value",
                                   value |-> to_value(ty.of, x[keys[i]])]>>)])
      [] ty.k = "struct" ->
           V("Record",
             [i \in DOMAIN ty.fields |->
                [name |-> ty.fields[i].name,
                 value |-> to_value(ty.fields[i].ty, x[ty.fields[i].name])]])

\* -------------------------------------------- apache_avro::from_value (serde)
AllOk(results) == \A i \in DOMAIN results : results[i].ok

FirstErr(results) ==
    results[CHOOSE i \in DOMAIN results :
              /\ ~results[i].ok
              /\ \A j \in DOMAIN results : ~results[j].ok => i <= j]

from_value(ty, value) ==
    CASE ty.k = "repr" ->
           IF value.t = "Int" /\ value.v \in ty.values THEN Ok(value.v)
           ELSE Err("invalid value for enum")
      [] ty.k = "i32" ->
           IF value.t \in {"Int", "Long"} THEN Ok(value.v)
           ELSE Err("invalid type: expected i32")
      [] ty.k = "i64" ->
           IF value.t \in {"Int", "Long"} THEN Ok(value.v)
           ELSE Err("invalid type: expected i64")
      [] ty.k = "bool" ->
           IF value.t = "Boolean" THEN Ok(value.v)
           ELSE Err("invalid type: expected a boolean")
      [] ty.k = "String" ->
           IF value.t = "String" THEN Ok(value.v)
           ELSE Err("invalid type: expected a string")
      [] ty.k = "ByteBuf" ->
           IF value.t = "Bytes" THEN Ok(value.v)
           ELSE Err("invalid type: expected byte array")
      [] ty.k = "Value" -> Value_deserialize(value)
      [] ty.k = "FileFormat" -> FileFormat_deserialize(value)
      [] ty.k = "PartitionValues" -> PartitionValues_deserialize(value)
      [] ty.k = "Option" ->
           LET inner == IF value.t = "Union" THEN value.v ELSE value
           IN  IF inner.t = "Null" THEN Ok(NoneOpt)
               ELSE LET r == from_value(ty.of, inner)
                    IN  IF r.ok THEN Ok(Some(r.val)) ELSE r
      [] ty.k = "Vec" ->
           IF value.t # "Array" THEN Err("invalid type: expected a sequence")
           ELSE LET rs == [i \in DOMAIN value.v |-> from_value(ty.of, value.v[i])]
                IN  IF AllOk(rs) THEN Ok([i \in DOMAIN rs |-> rs[i].val])
                    ELSE FirstErr(rs)
      [] ty.k = "AvroMap" ->
           LET KeyValue == TStruct(<<SerdeField("key", Ty("i32")),
                                     SerdeField("value", ty.of)>>)
               vec == from_value(TVec(KeyValue), value)
           IN  IF ~vec.ok THEN vec
               ELSE Ok([key \in {vec.val[i].key : i \in DOMAIN vec.val} |->
                          LET last == CHOOSE i \in DOMAIN vec.val :
                                        /\ vec.val[i].key = key
                                        /\ \A j \in DOMAIN vec.val :
                                             vec.val[j].key = key => j <= i
                          IN  vec.val[last].value])
      [] ty.k = "struct" ->
           IF value.t # "Record" THEN Err("invalid type: expected a struct")
           ELSE LET rs == [i \in DOMAIN ty.fields |->
                             LET at == FieldIndex(value.v, ty.fields[i].name)
                             IN  IF at # 0
                                 THEN from_value(ty.fields[i].ty, value.v[at].value)
                                 ELSE IF ty.fields[i].ty.k = "Option"
                                 THEN Ok(NoneOpt)
                                 ELSE Err("missing field")]
                IN  IF AllOk(rs)
                    THEN Ok([name \in {ty.fields[i].name : i \in DOMAIN ty.fields} |->
                               rs[FieldIndex(ty.fields, name)].val])
                    ELSE FirstErr(rs)

\* ------------------------------------------------- PartitionValues::schema
\* Struct::get: the column of the table schema whose id is id, if any.
Struct_get(struct_fields, id) ==
    IF \E i \in DOMAIN struct_fields : struct_fields[i].id = id
    THEN Some(struct_fields[CHOOSE i \in DOMAIN struct_fields :
                              struct_fields[i].id = id])
    ELSE NoneOpt

\* The pieces of the JSON text PartitionValues::schema assembles.
FieldText(name, type) == [tok |-> "field", name |-> name, type |-> type]

RECURSIVE trim_end_matches(_, _)
trim_end_matches(text, pat) ==
    IF text # <<>> /\ text[Len(text)] = pat
    THEN trim_end_matches(SubSeq(text, 1, Len(text) - 1), pat)
    ELSE text

\* The fold over the partition fields: each contributes the text of one
\* field and a comma, or the error for its column.
RECURSIVE fold_schema(_, _, _)
fold_schema(acc, fields, table_schema) ==
    IF fields = <<>> THEN acc
    ELSE LET field == Head(fields)
             schema_field == Struct_get(table_schema.struct_fields, field.source_id)
             x == IF IsSome(schema_field)
                  THEN Ok(<<FieldText(field.name, Unwrap(schema_field).field_type),
                            [tok |-> "comma"]>>)
                  ELSE Err("Column not in table schema.")
             sum == IF ~acc.ok THEN acc
                    ELSE IF ~x.ok THEN x
                    ELSE Ok(acc.val \o x.val)
         IN  fold_schema(sum, Tail(fields), table_schema)

PartitionValues_schema_reversed(spec, table_schema) ==
    LET reversed == [i \in DOMAIN spec.fields |->
                       spec.fields[Len(spec.fields) + 1 - i]]
        folded == fold_schema(Ok(<<[tok |-> "open"]>>), reversed, table_schema)
    IN  IF folded.ok
        THEN Ok(trim_end_matches(folded.val, [tok |-> "comma"]) \o <<[tok |-> "close"]>>)
        ELSE folded

PartitionValues_schema(spec, table_schema) ==
    LET folded == fold_schema(Ok(<<[tok |-> "open"]>>), spec.fields, table_schema)
    IN  IF folded.ok
        THEN Ok(trim_end_matches(folded.val, [tok |-> "comma"]) \o <<[tok |-> "close"]>>)
        ELSE folded

\* ------------------------------------------------ apache_avro::Schema::parse_str
\* The text is a JSON record schema: fields separated by single commas
\* between the opening and the closing piece, with distinct names.
WellFormed(text) ==
    /\ Len(text) >= 2
    /\ text[1] = [tok |-> "open"]
    /\ text[Len(text)] = [tok |-> "close"]
    /\ Len(text) = 2 \/ Len(text) % 2 = 1
    /\ \A i \in 2..(Len(text) - 1) :
         text[i].tok = IF i % 2 = 0 THEN "field" ELSE "comma"

parse_str(text) ==
    IF ~WellFormed(text) THEN Err("Failed to parse schema from JSON")
    ELSE LET n == (Len(text) - 1) \div 2
             types == [i \in 1..n |->
                         IF text[2 * i].type \in
                              {"int", "long", "string", "boolean", "bytes"}
                         THEN Ok(Prim(text[2 * i].type))
                         ELSE Err("Unknown primitive type")]
         IN  IF ~AllOk(types) THEN FirstErr(types)
             ELSE IF \E i, j \in 1..n : i # j /\ text[2 * i].name = text[2 * j].name
             THEN Err("Duplicate field name")
             ELSE Ok(Record("r102",
                            [i \in 1..n |->
                               Field(text[2 * i].name, Nullable(types[i].val))]))

\* ------------------------------------------------- ManifestEntry, DataFile
Data == 0

PositionDeletes == 1

EqualityDeletes == 2

DataFileType ==
    TStruct(<<SerdeField("content", TOption(TRepr({Data, PositionDeletes, EqualityDeletes}))),
              SerdeField("file_path", Ty("String")),
              SerdeField("file_format", Ty("FileFormat")),
              SerdeField("partition", Ty("PartitionValues")),
              SerdeField("record_count", Ty("i64")),
              SerdeField("file_size_in_bytes", Ty("i64")),
              SerdeField("block_size_in_bytes", TOption(Ty("i64"))),
              SerdeField("file_ordinal", TOption(Ty("i32"))),
              SerdeField("sort_columns", TOption(TVec(Ty("i32")))),
              SerdeField("column_sizes", TOption(TAvroMap(Ty("i64")))),
              SerdeField("value_counts", TOption(TAvroMap(Ty("i64")))),
              SerdeField("null_value_counts", TOption(TAvroMap(Ty("i64")))),
              SerdeField("nan_value_counts", TOption(TAvroMap(Ty("i64")))),
              SerdeField("distinct_counts", TOption(TAvroMap(Ty("i64")))),
              SerdeField("lower_bounds", TOption(TAvroMap(Ty("ByteBuf")))),
              SerdeField("upper_bounds", TOption(TAvroMap(Ty("ByteBuf")))),
              SerdeField("key_metadata", TOption(Ty("ByteBuf"))),
              SerdeField("split_offsets", TOption(TVec(Ty("i64")))),
              SerdeField("equality_ids", TOption(TVec(Ty("i32")))),
              SerdeField("sort_order_id", TOption(Ty("i32")))>>)

ManifestEntryType ==
    TStruct(<<SerdeField("status", TRepr({Existing, Added, Deleted})),
              SerdeField("snapshot_id", TOption(Ty("i64"))),
              SerdeField("sequence_number", TOption(Ty("i64"))),
              SerdeField("data_file", DataFileType)>>)

\* The array-of-records schema of an AvroMap column.
MapSchema(name, value) ==
    Array(Record(name, <<Field("key", Prim("int")), Field("value", value)>>))

DataFile_schema(partition_schema) ==
    Record("r2",
           <<Field("content", Nullable(Prim("int"))),
             Field("file_path", Prim("string")),
             Field("file_format", Prim("string")),
             Field("partition", partition_schema),
             Field("record_count", Prim("long")),
             Field("file_size_in_bytes", Prim("long")),
             Field("block_size_in_bytes", Nullable(Prim("long"))),
             Field("file_ordinal", Nullable(Prim("int"))),
             Field("sort_columns", Nullable(Array(Prim("int")))),
             Field("column_sizes", Nullable(MapSchema("k117_v118", Prim("long")))),
             Field("value_counts", Nullable(MapSchema("k119_v120", Prim("long")))),
             Field("null_value_counts", Nullable(MapSchema("k121_v122", Prim("long")))),
             Field("nan_value_counts", Nullable(MapSchema("k138_v139", Prim("long")))),
             Field("distinct_counts", Nullable(MapSchema("k123_v124", Prim("long")))),
             Field("lower_bounds", Nullable(MapSchema("k126_v127", Prim("bytes")))),
             Field("upper_bounds", Nullable(MapSchema("k129_v130", Prim("bytes")))),
             Field("key_metadata", Nullable(Prim("bytes"))),
             Field("split_offsets", Nullable(Array(Prim("long")))),
             Field("equality_ids", Nullable(Array(Prim("int")))),
             Field("sort_order_id", Nullable(Prim("int")))>>)

ManifestEntry_schema_long_status(partition_schema) ==
    Record("manifest_entry",
           <<Field("status", Prim("long")),
             Field("snapshot_id", Nullable(Prim("long"))),
             Field("sequence_number", Nullable(Prim("long"))),
             Field("data_file", DataFile_schema(partition_schema))>>)

ManifestEntry_schema(partition_schema) ==
    Record("manifest_entry",
           <<Field("status", Prim("int")),
             Field("snapshot_id", Nullable(Prim("long"))),
             Field("sequence_number", Nullable(Prim("long"))),
             Field("data_file", DataFile_schema(partition_schema))>>)

\* ------------------------------------------- apache_avro::Writer and Reader
\* A Writer, and the file it leaves behind for a Reader, is its schema, its
\* user metadata and the blocks appended so far.
\* Serialization reached an unwrap() of None.
RECURSIVE Panics(_)
Panics(value) ==
    CASE value.t = "Panic" -> TRUE
      [] value.t = "Record" -> \E i \in DOMAIN value.v : Panics(value.v[i].value)
      [] value.t = "Array" -> \E i \in DOMAIN value.v : Panics(value.v[i])
      [] value.t = "Union" -> Panics(value.v)
      [] OTHER -> FALSE

append_ser(writer, ty, x) ==
    LET value == to_value(ty, x)
    IN  IF Panics(value)
        THEN Err("panicked: called Option::unwrap() on a None value")
        ELSE IF ~validate(value, writer.schema)
        THEN Err("Value does not match schema")
        ELSE Ok([writer EXCEPT !.blocks = Append(@, encode(value))])

RECURSIVE append_all(_, _, _)
append_all(writer, ty, xs) ==
    IF xs = <<>> THEN Ok(writer)
    ELSE LET r == append_ser(writer, ty, Head(xs))
         IN  IF r.ok THEN append_all(r.val, ty, Tail(xs)) ELSE r

\* The i-th item the Reader's iterator yields, None after the last block.
Reader_next(reader, i) ==
    IF i > Len(reader.blocks) THEN NoneOpt
    ELSE IF decodable(reader.blocks[i], reader.schema)
    THEN Some(Ok(decode(reader.blocks[i], reader.schema)))
    ELSE Some(Err("Failed to decode block"))

\* ------------------------------------------------------------ read_manifest
read_string(reader, key) ==
    IF key \in DOMAIN reader.user_metadata
    THEN LET s == from_utf8(reader.user_metadata[key])
         IN  IF s.ok THEN Ok(Some(s.val)) ELSE s
    ELSE Ok(NoneOpt)

read_metadata_swapped_ids(reader) ==
    LET schema == read_string(reader, "schema")
        rest == <<read_string(reader, "partition-spec-id"),
                  read_string(reader, "partition-spec"),
                  read_string(reader, "schema-id"),
                  read_string(reader, "format-version"),
                  read_string(reader, "content")>>
    IN  IF ~schema.ok THEN schema
        ELSE IF ~IsSome(schema.val) THEN Err("Metadata must have table schema")
        ELSE IF ~AllOk(rest) THEN FirstErr(rest)
        ELSE Ok([schema |-> Unwrap(schema.val),
                 schema_id |-> rest[1].val,
                 partition_spec |-> rest[2].val,
                 partition_spec_id |-> rest[3].val,
                 format_version |-> rest[4].val,
                 content |-> rest[5].val])

read_metadata(reader) ==
    LET schema == read_string(reader, "schema")
        rest == <<read_string(reader, "schema-id"),
                  read_string(reader, "partition-spec"),
                  read_string(reader, "partition-spec-id"),
                  read_string(reader, "format-version"),
                  read_string(reader, "content")>>
    IN  IF ~schema.ok THEN schema
        ELSE IF ~IsSome(schema.val) THEN Err("Metadata must have table schema")
        ELSE IF ~AllOk(rest) THEN FirstErr(rest)
        ELSE Ok([schema |-> Unwrap(schema.val),
                 schema_id |-> rest[1].val,
                 partition_spec |-> rest[2].val,
                 partition_spec_id |-> rest[3].val,
                 format_version |-> rest[4].val,
                 content |-> rest[5].val])

read_manifest_entry(reader) ==
    LET record == Reader_next(reader, 1)
    IN  IF ~IsSome(record) THEN Err("Manifest Entry Expected")
        ELSE IF ~Unwrap(record).ok THEN Unwrap(record)
        ELSE from_value(ManifestEntryType, Unwrap(record).val)

read_manifest_schema_optional(r) ==
    LET metadata == read_metadata(r)
        entry == read_manifest_entry(r)
    IN  IF ~entry.ok THEN entry
        ELSE Ok([metadata |-> IF metadata.ok THEN metadata.val ELSE NoneOpt,
                 entry |-> entry.val])

read_manifest(r) ==
    LET metadata == read_metadata(r)
        entry == read_manifest_entry(r)
    IN  IF ~metadata.ok THEN metadata
        ELSE IF ~entry.ok THEN entry
        ELSE Ok([metadata |-> metadata.val, entry |-> entry.val])

\* ------------------------------------------------- manifests that are written
\* Most entries of a manifest written with several entries.
MaxEntries == 2

OptionOf(S) == {NoneOpt} \cup {Some(x) : x \in S}

MinimalDataFile ==
    [content |-> NoneOpt,
     file_path |-> "/",
     file_format |-> "Parquet",
     partition |-> from_iter(<< <<"ts_day", Some([t |-> "Int", i |-> 1])>> >>),
     record_count |-> 4,
     file_size_in_bytes |-> 1200,
     block_size_in_bytes |-> NoneOpt,
     file_ordinal |-> NoneOpt,
     sort_columns |-> NoneOpt,
     column_sizes |-> NoneOpt,
     value_counts |-> NoneOpt,
     null_value_counts |-> NoneOpt,
     nan_value_counts |-> NoneOpt,
     distinct_counts |-> NoneOpt,
     lower_bounds |-> NoneOpt,
     upper_bounds |-> NoneOpt,
     key_metadata |-> NoneOpt,
     split_offsets |-> NoneOpt,
     equality_ids |-> NoneOpt,
     sort_order_id |-> NoneOpt]

\* Entries with every status and, for the two i64 fields, None or a sample
\* value; the codec does not look at the value.
arb_manifest_entry ==
    LET i64 == {-2147483647, 0, 2147483647}
    IN  {[status |-> status, snapshot_id |-> snapshot_id,
          sequence_number |-> sequence_number, data_file |-> MinimalDataFile] :
            status \in {Existing, Added, Deleted},
            snapshot_id \in OptionOf(i64),
            sequence_number \in OptionOf(i64)}

\* The string a writer stores under each header key: {e-acute}, 1, [], 0, 2
\* and data.
HeaderText ==
    [key \in {"schema", "schema-id", "partition-spec", "partition-spec-id",
              "format-version", "content"} |->
       CASE key = "schema" -> <<123, 233, 125>>
         [] key = "schema-id" -> <<49>>
         [] key = "partition-spec" -> <<91, 93>>
         [] key = "partition-spec-id" -> <<48>>
         [] key = "format-version" -> <<50>>
         [] key = "content" -> <<100, 97, 116, 97>>]

\* Manifests with a full header and any one entry, and manifests with any
\* subset of the header keys and up to n entries out of two that differ.
ManifestInputs(n) ==
    LET first == [status |-> Added, snapshot_id |-> Some(0),
                  sequence_number |-> NoneOpt, data_file |-> MinimalDataFile]
        second == [status |-> Deleted, snapshot_id |-> NoneOpt,
                   sequence_number |-> Some(0), data_file |-> MinimalDataFile]
    IN  {[kind |-> "manifest", keys |-> DOMAIN HeaderText, entries |-> <<entry>>] :
            entry \in arb_manifest_entry}
        \cup
        {[kind |-> "manifest", keys |-> keys, entries |-> entries] :
            keys \in SUBSET DOMAIN HeaderText,
            entries \in SeqsUpTo({first, second}, n)}

\* Writer::builder().schema().user_metadata().build(), append_ser of every
\* entry, into_inner: the bytes of the manifest.
write_manifest(keys, entries) ==
    LET table_schema ==
            [struct_fields |-> <<[id |-> 4, name |-> "day", field_type |-> "int"]>>]
        spec == [spec_id |-> 0,
                 fields |-> <<[source_id |-> 4, field_id |-> 1000,
                               name |-> "ts_day", transform |-> "day"]>>]
        partition_text == PartitionValues_schema(spec, table_schema)
        partition_schema == parse_str(partition_text.val)
        meta == [key \in keys |-> into_bytes(HeaderText[key])]
    IN  IF ~partition_text.ok THEN partition_text
        ELSE IF ~partition_schema.ok THEN partition_schema
        ELSE append_all([schema |-> ManifestEntry_schema(partition_schema.val),
                         user_metadata |-> meta, blocks |-> <<>>],
                        ManifestEntryType, entries)

Manifest_write ==
    /\ fn = "ready"
    /\ arg.kind = "manifest"
    /\ fn' = "write_manifest"
    /\ ret' = write_manifest(arg.keys, arg.entries)
    /\ UNCHANGED <<arg, tableVars, viewVars, txnVars>>

Manifest_read_manifest ==
    /\ fn = "write_manifest"
    /\ ret.ok
    /\ fn' = "read_manifest"
    /\ ret' = read_manifest(ret.val)
    /\ UNCHANGED <<arg, tableVars, viewVars, txnVars>>

Manifest_read_metadata ==
    /\ fn = "write_manifest"
    /\ ret.ok
    /\ fn' = "read_metadata"
    /\ ret' = read_metadata(ret.val)
    /\ UNCHANGED <<arg, tableVars, viewVars, txnVars>>

Manifest_read_manifest_entry ==
    /\ fn = "write_manifest"
    /\ ret.ok
    /\ fn' = "read_manifest_entry"
    /\ ret' = read_manifest_entry(ret.val)
    /\ UNCHANGED <<arg, tableVars, viewVars, txnVars>>

\* ------------------------------------------- partition values that are written
\* Most partition fields of a partition spec.
MaxPartitionFields == 2

\* A table with a string column and an int column; a field_type is written
\* as its Display text.
PartitionTableSchema ==
    [struct_fields |-> <<[id |-> 2, name |-> "name", field_type |-> "string"],
                         [id |-> 4, name |-> "day", field_type |-> "int"]>>]

\* Specs of up to n partition fields over the two columns and over a column
\* id the table does not have, with a value for each field.
PartitionInputs(n) ==
    LET fields == {[source_id |-> source_id, field_id |-> 1000, name |-> name,
                    transform |-> transform] :
                      source_id \in {2, 4, 5},
                      name \in {"p", "q"},
                      transform \in {"identity", "bucket"}}
        values == OptionOf({[t |-> "Int", i |-> 1], [t |-> "String", s |-> "x"]})
    IN  UNION {{[kind |-> "partition",
                 spec |-> [spec_id |-> 0, fields |-> fs],
                 values |-> vs] :
                   fs \in [1..k -> fields], vs \in [1..k -> values]} :
               k \in 0..n}

\* PartitionValues::from_iter over the spec's field names and the values.
partition_values(input) ==
    from_iter([i \in DOMAIN input.values |->
                 <<input.spec.fields[i].name, input.values[i]>>])

Partition_schema ==
    /\ fn = "ready"
    /\ arg.kind = "partition"
    /\ fn' = "schema"
    /\ ret' = PartitionValues_schema(arg.spec, PartitionTableSchema)
    /\ UNCHANGED <<arg, tableVars, viewVars, txnVars>>

Partition_append_ser ==
    /\ fn = "schema"
    /\ ret.ok
    /\ fn' = "append_ser"
    /\ ret' = LET schema == parse_str(ret.val)
              IN  IF ~schema.ok THEN schema
                  ELSE append_ser([schema |-> schema.val, user_metadata |-> <<>>,
                                   blocks |-> <<>>],
                                  Ty("PartitionValues"), partition_values(arg))
    /\ UNCHANGED <<arg, tableVars, viewVars, txnVars>>

Partition_from_value ==
    /\ fn = "append_ser"
    /\ ret.ok
    /\ fn' = "from_value"
    /\ ret' = LET record == Unwrap(Reader_next(ret.val, 1))
              IN  IF ~record.ok THEN record
                  ELSE from_value(Ty("PartitionValues"), record.val)
    /\ UNCHANGED <<arg, tableVars, viewVars, txnVars>>

\* apache_avro::to_value(&partition_values): the serialization on its own,
\* as Writer::append_ser runs it before it looks at the schema.
Partition_to_value ==
    /\ fn = "ready"
    /\ arg.kind = "partition"
    /\ fn' = "to_value"
    /\ ret' = to_value(Ty("PartitionValues"), partition_values(arg))
    /\ UNCHANGED <<arg, tableVars, viewVars, txnVars>>

\* ----------------------------------------------------------- manifest list
FieldSummaryType ==
    TStruct(<<SerdeField("contains_null", Ty("bool")),
              SerdeField("contains_nan", TOption(Ty("bool"))),
              SerdeField("lower_bound", TOption(Ty("ByteBuf"))),
              SerdeField("upper_bound", TOption(Ty("ByteBuf")))>>)

ManifestFileType ==
    TStruct(<<SerdeField("manifest_path", Ty("String")),
              SerdeField("manifest_length", Ty("i64")),
              SerdeField("partition_spec_id", Ty("i32")),
              SerdeField("content", TOption(TRepr({Data, PositionDeletes, EqualityDeletes}))),
              SerdeField("sequence_number", TOption(Ty("i64"))),
              SerdeField("min_sequence_number", TOption(Ty("i64"))),
              SerdeField("added_snapshot_id", Ty("i64")),
              SerdeField("added_files_count", TOption(Ty("i32"))),
              SerdeField("existing_files_count", TOption(Ty("i32"))),
              SerdeField("deleted_files_count", TOption(Ty("i32"))),
              SerdeField("added_rows_count", TOption(Ty("i64"))),
              SerdeField("existing_rows_count", TOption(Ty("i64"))),
              SerdeField("deleted_rows_count", TOption(Ty("i64"))),
              SerdeField("partitions", TOption(TVec(FieldSummaryType))),
              SerdeField("key_metadata", TOption(Ty("ByteBuf")))>>)

FieldSummary_schema ==
    Record("field_summary",
           <<Field("contains_null", Prim("boolean")),
             Field("contains_nan", Nullable(Prim("boolean"))),
             Field("lower_bound", Nullable(Prim("bytes"))),
             Field("upper_bound", Nullable(Prim("bytes")))>>)

ManifestFile_schema_rows_swapped ==
    Record("manifest_list",
           <<Field("manifest_path", Prim("string")),
             Field("manifest_length", Prim("long")),
             Field("partition_spec_id", Prim("int")),
             Field("content", Nullable(Prim("int"))),
             Field("sequence_number", Nullable(Prim("long"))),
             Field("min_sequence_number", Nullable(Prim("long"))),
             Field("added_snapshot_id", Prim("long")),
             Field("added_files_count", Nullable(Prim("int"))),
             Field("existing_files_count", Nullable(Prim("int"))),
             Field("deleted_files_count", Nullable(Prim("int"))),
             Field("existing_rows_count", Nullable(Prim("long"))),
             Field("added_rows_count", Nullable(Prim("long"))),
             Field("deleted_rows_count", Nullable(Prim("long"))),
             Field("partitions", Nullable(Array(FieldSummary_schema))),
             Field("key_metadata", Nullable(Prim("bytes")))>>)

ManifestFile_schema ==
    Record("manifest_list",
           <<Field("manifest_path", Prim("string")),
             Field("manifest_length", Prim("long")),
             Field("partition_spec_id", Prim("int")),
             Field("content", Nullable(Prim("int"))),
             Field("sequence_number", Nullable(Prim("long"))),
             Field("min_sequence_number", Nullable(Prim("long"))),
             Field("added_snapshot_id", Prim("long")),
             Field("added_files_count", Nullable(Prim("int"))),
             Field("existing_files_count", Nullable(Prim("int"))),
             Field("deleted_files_count", Nullable(Prim("int"))),
             Field("added_rows_count", Nullable(Prim("long"))),
             Field("existing_rows_count", Nullable(Prim("long"))),
             Field("deleted_rows_count", Nullable(Prim("long"))),
             Field("partitions", Nullable(Array(FieldSummary_schema))),
             Field("key_metadata", Nullable(Prim("bytes")))>>)

\* Most field summaries in the partitions list of a ManifestFile.
MaxSummaries == 2

\* ManifestFiles with a given list of field summaries and a given choice of
\* null or set for every other optional field.
ManifestFilesWith(partitions, set) ==
    [manifest_path : {""},
     manifest_length : {1200},
     partition_spec_id : {0},
     content : IF set[1] THEN {Some(Data), Some(EqualityDeletes)} ELSE {NoneOpt},
     sequence_number : IF set[2] THEN {Some(566)} ELSE {NoneOpt},
     min_sequence_number : IF set[3] THEN {Some(0)} ELSE {NoneOpt},
     added_snapshot_id : {394874830},
     added_files_count : IF set[4] THEN {Some(1)} ELSE {NoneOpt},
     existing_files_count : IF set[5] THEN {Some(2)} ELSE {NoneOpt},
     deleted_files_count : IF set[6] THEN {Some(0)} ELSE {NoneOpt},
     added_rows_count : IF set[7] THEN {Some(1000)} ELSE {NoneOpt},
     existing_rows_count : IF set[8] THEN {Some(8000)} ELSE {NoneOpt},
     deleted_rows_count : IF set[9] THEN {Some(0)} ELSE {NoneOpt},
     partitions : partitions,
     key_metadata : IF set[10] THEN {Some(<<7>>)} ELSE {NoneOpt}]

\* Manifest files with no or one field summary and every choice of null or
\* set for the other optional fields, and manifest files with every list of
\* up to n field summaries and every other optional field set.
ManifestFileInputs(n) ==
    LET summaries == [contains_null : BOOLEAN,
                      contains_nan : OptionOf(BOOLEAN),
                      lower_bound : OptionOf({<<1>>}),
                      upper_bound : OptionOf({<<2, 0>>})]
        manifest_files ==
            UNION {ManifestFilesWith(
                       {NoneOpt,
                        Some(<<[contains_null |-> TRUE, contains_nan |-> Some(FALSE),
                                lower_bound |-> NoneOpt, upper_bound |-> NoneOpt]>>)},
                       set) : set \in [1..10 -> BOOLEAN]}
            \cup
            ManifestFilesWith(OptionOf(SeqsUpTo(summaries, n)), [i \in 1..10 |-> TRUE])
    IN  {[kind |-> "manifest_file", file |-> file] : file \in manifest_files}

ManifestList_write ==
    /\ fn = "ready"
    /\ arg.kind = "manifest_file"
    /\ fn' = "write_manifest_list"
    /\ ret' = append_ser([schema |-> ManifestFile_schema, user_metadata |-> <<>>,
                          blocks |-> <<>>],
                         ManifestFileType, arg.file)
    /\ UNCHANGED <<arg, tableVars, viewVars, txnVars>>

ManifestList_read ==
    /\ fn = "write_manifest_list"
    /\ ret.ok
    /\ fn' = "read_manifest_list"
    /\ ret' = LET record == Unwrap(Reader_next(ret.val, 1))
              IN  IF ~record.ok THEN record
                  ELSE from_value(ManifestFileType, record.val)
    /\ UNCHANGED <<arg, tableVars, viewVars, txnVars>>

\* ------------------------------------------------------ Transaction::commit
\* The commit protocol of the transaction engine.  A metadata path and a
\* snapshot id are unique to the attempt that wrote them: <<t, k>> for
\* attempt k of transaction t, <<0, n>> for the n-th commit of another
\* writer and <<0, 0>> for the metadata the table was created with.
Transactions == 1..NumTransactions

\* Attempt count of the commit retry loop (default 4).
MaxAttempts == 4

NewTableMetadata ==
    [path |-> <<0, 0>>,
     last_sequence_number |-> 0,
     current_snapshot_id |-> NoneOpt,
     snapshots |-> <<>>]

\* The manifest list of the current snapshot of the metadata.
current_manifests(metadata) ==
    IF IsSome(metadata.current_snapshot_id)
    THEN LET i == CHOOSE i \in DOMAIN metadata.snapshots :
                    metadata.snapshots[i].snapshot_id =
                        Unwrap(metadata.current_snapshot_id)
         IN  metadata.snapshots[i].manifest_list
    ELSE <<>>

\* Mutant of new_metadata: the sequence number of the base is reused.
new_metadata_same_sequence(base, id, manifest) ==
    [path |-> id,
     last_sequence_number |-> base.last_sequence_number,
     current_snapshot_id |-> Some(id),
     snapshots |-> Append(base.snapshots,
                          [snapshot_id |-> id,
                           parent_snapshot_id |-> base.current_snapshot_id,
                           sequence_number |-> base.last_sequence_number,
                           manifest_list |-> Append(current_manifests(base), manifest)])]

\* Steps 2 to 5: one new manifest after the manifests carried over, a new
\* manifest list, a new Snapshot and the metadata with_snapshot gives,
\* persisted under a path of its own.
new_metadata(base, id, manifest) ==
    [path |-> id,
     last_sequence_number |-> base.last_sequence_number + 1,
     current_snapshot_id |-> Some(id),
     snapshots |-> Append(base.snapshots,
                          [snapshot_id |-> id,
                           parent_snapshot_id |-> base.current_snapshot_id,
                           sequence_number |-> base.last_sequence_number + 1,
                           manifest_list |-> Append(current_manifests(base), manifest)])]

NoTransaction ==
    /\ table = NewTableMetadata
    /\ txn = [t \in Transactions |->
                [pc |-> "idle", base |-> NewTableMetadata, attempts |-> 0,
                 new |-> NewTableMetadata, result |-> "none"]]

\* commit(self) consumes the transaction: what is left when it returns is
\* the result and, for the record, the number of attempts made.
returned(transaction, state, outcome) ==
    [pc |-> state, base |-> NewTableMetadata, attempts |-> transaction.attempts,
     new |-> NewTableMetadata, result |-> outcome]

\* Transaction::new, fast_append of one file of its own, and the call of
\* commit: step 1 takes the metadata the catalog points at as the base.
Transaction_new(t) ==
    /\ txn[t].pc = "idle"
    /\ txn' = [txn EXCEPT ![t].pc = "staged", ![t].base = table]
    /\ UNCHANGED table
    /\ UNCHANGED <<tableVars, viewVars, callVars>>

\* Steps 2 to 5 of an attempt.
commit_build(t) ==
    /\ txn[t].pc = "staged"
    /\ txn' = [txn EXCEPT ![t].pc = "built",
                          ![t].attempts = @ + 1,
                          ![t].new = new_metadata(txn[t].base,
                                                  <<t, txn[t].attempts + 1>>,
                                                  <<t>>)]
    /\ UNCHANGED table
    /\ UNCHANGED <<tableVars, viewVars, callVars>>

\* Mutant of commit_update_table: the pointer is swapped without comparing.
commit_update_table_blind(t) ==
    /\ txn[t].pc = "built"
    /\ table' = txn[t].new
    /\ txn' = [txn EXCEPT ![t] = returned(txn[t], "done", "Ok")]
    /\ UNCHANGED <<tableVars, viewVars, callVars>>

\* Mutant of commit_update_table: the retry loop has no attempt bound.
commit_update_table_unbounded(t) ==
    /\ txn[t].pc = "built"
    /\ IF table.path = txn[t].base.path
       THEN /\ table' = txn[t].new
            /\ txn' = [txn EXCEPT ![t] = returned(txn[t], "done", "Ok")]
       ELSE /\ txn' = [txn EXCEPT ![t].pc = "staged", ![t].base = table,
                                  ![t].new = NewTableMetadata]
            /\ UNCHANGED table
    /\ UNCHANGED <<tableVars, viewVars, callVars>>

\* Steps 6 to 8: catalog.update_table(identifier, base_path, new_path) swaps
\* the pointer when it still is the base; on CommitConflict the commit
\* reloads the current metadata and rebuilds, or gives up after the last
\* attempt.
commit_update_table(t) ==
    /\ txn[t].pc = "built"
    /\ IF table.path = txn[t].base.path
       THEN /\ table' = txn[t].new
            /\ txn' = [txn EXCEPT ![t] = returned(txn[t], "done", "Ok")]
       ELSE /\ txn' = IF txn[t].attempts < MaxAttempts
                      THEN [txn EXCEPT ![t].pc = "staged", ![t].base = table,
                                       ![t].new = NewTableMetadata]
                      ELSE [txn EXCEPT ![t] = returned(txn[t], "failed",
                                                        "CommitConflict")]
            /\ UNCHANGED table
    /\ UNCHANGED <<tableVars, viewVars, callVars>>

\* Any other error of an attempt (an object-store or catalog call that
\* fails) aborts the transaction.
commit_io_failure(t) ==
    /\ txn[t].pc \in {"staged", "built"}
    /\ txn' = [txn EXCEPT ![t] = returned(txn[t], "failed", "IOFailure")]
    /\ UNCHANGED table
    /\ UNCHANGED <<tableVars, viewVars, callVars>>

\* Another writer commits a file of its own and swaps the catalog pointer.
external_commit ==
    LET n == Cardinality({i \in DOMAIN table.snapshots :
                            table.snapshots[i].snapshot_id[1] = 0}) + 1
    IN  /\ n <= MaxExternal
        /\ table' = new_metadata(table, <<0, n>>, <<0, n>>)
        /\ UNCHANGED txn
        /\ UNCHANGED <<tableVars, viewVars, callVars>>


\* ---------------------------------------------------------- specifications
\* No function of the codecs has been called.
NoCall ==
    /\ fn = "ready"
    /\ arg = <<>>
    /\ ret = <<>>

\* A table loaded from the object store, appended to, listed and scanned.
Init == TableInit /\ ViewInit /\ NoCall /\ NoTransaction

Next == fast_append \/ Table_files \/ scan_filtered \/ scan_unfiltered \/ drop_result

Spec == Init /\ [][Next]_vars

NewTable ==
    /\ manifests = <<>>
    /\ appended = <<>>
    /\ op = "ready"
    /\ filter = NoneOpt
    /\ filters_empty = TRUE
    /\ manifests_to_prune = <<>>
    /\ files_to_prune = <<>>
    /\ files_ret = <<>>
    /\ plan = EmptyPlan

\* Writers that build filesystem views and commit them concurrently.
InitFs == NewTable /\ ViewInit /\ NoCall /\ NoTransaction

NextFs ==
    \E w \in Writers :
        \/ new_filesystem_view(w)
        \/ fs_put(w)
        \/ fs_copy_if_not_exists(w)
        \/ fs_delete(w)
        \/ fs_load(w)

SpecFs == InitFs /\ [][NextFs]_vars

\* Writers that build metastore views and commit them concurrently.
InitMs == NewTable /\ ViewInit /\ NoCall /\ NoTransaction

NextMs ==
    \E w \in Writers :
        \/ new_metastore_view(w)
        \/ ms_put(w)
        \/ ms_register(w)
        \/ ms_cancel(w)

SpecMs == InitMs /\ [][NextMs]_vars

\* Callers that build a Namespace from every bounded sequence of levels.
InitNs ==
    /\ NewTable
    /\ ViewInit
    /\ NoTransaction
    /\ fn = "ready"
    /\ arg \in SeqsUpTo({"", "a", "b", "c"}, MaxLevels)
    /\ ret = <<>>

NextNs ==
    \/ Namespace_try_new
    \/ Namespace_empty
    \/ Namespace_levels
    \/ Namespace_len

SpecNs == InitNs /\ [][NextNs]_vars

\* Manifests, partition values and manifest-list entries that are written
\* and read back.
InitManifest ==
    /\ NewTable
    /\ ViewInit
    /\ NoTransaction
    /\ fn = "ready"
    /\ arg \in ManifestInputs(MaxEntries)
               \cup PartitionInputs(MaxPartitionFields)
               \cup ManifestFileInputs(MaxSummaries)
    /\ ret = <<>>

NextManifest ==
    \/ Manifest_write
    \/ Manifest_read_manifest
    \/ Manifest_read_metadata
    \/ Manifest_read_manifest_entry
    \/ Partition_schema
    \/ Partition_append_ser
    \/ Partition_to_value
    \/ Partition_from_value
    \/ ManifestList_write
    \/ ManifestList_read

SpecManifest == InitManifest /\ [][NextManifest]_vars

\* Writers that build views of either kind and commit them concurrently.
NextView == NextFs \/ NextMs

SpecView == InitFs /\ [][NextView]_vars


\* Writers that commit filesystem views against an object store whose calls
\* can fail.
NextFsFaults == NextFs \/ \E w \in Writers : fs_io_failure(w)

SpecFsFaults == InitFs /\ [][NextFsFaults]_vars


\* Transactions that fast_append one file each and commit concurrently with
\* each other and with other writers.  A commit that has started keeps
\* running: it is polled until it returns.
InitTxn == NewTable /\ ViewInit /\ NoCall /\ NoTransaction

NextTxn ==
    \/ external_commit
    \/ \E t \in Transactions :
         \/ Transaction_new(t)
         \/ commit_build(t)
         \/ commit_update_table(t)
         \/ commit_io_failure(t)

SpecTxn ==
    /\ InitTxn
    /\ [][NextTxn]_vars
    /\ \A t \in Transactions : WF_vars(commit_build(t) \/ commit_update_table(t))


\* ------------------------------------------------------------------ claims
\* Number of PartitionedFiles of the plan located at path.
GroupOccurrences(path) ==
    Cardinality({<<g, k>> \in (1..Len(plan.file_groups)) \X (1..Len(files_ret)) :
                   /\ k <= Len(plan.file_groups[g])
                   /\ plan.file_groups[g][k].location = path})

\* Number of positions of the sequence s holding e.
Occurrences(s, e) == Cardinality({i \in 1..Len(s) : s[i] = e})

\* Position of path in the commit history.
CommitPosition(path) == CHOOSE i \in 1..Len(appended) : appended[i] = path

\* The ManifestEntry a PartitionedFile of the plan was made from.
EntryAt(location) == CHOOSE e \in Range(files_ret) : e.file_path = location

\* Indices of the manifests that survive manifest pruning in the last scan.
SurvivingManifests ==
    {i \in 1..Len(manifests) : filters_empty \/ manifests_to_prune[i]}

\* Indices into files_ret of the files the last scan did not drop.
SurvivingFiles ==
    {i \in 1..Len(files_ret) : filters_empty \/ keep_file(files_to_prune[i])}

CountsKnown(m) ==
    IsSome(m.added_rows_count) /\ IsSome(m.existing_rows_count) /\ IsSome(m.deleted_rows_count)

LiveRows(m) ==
    Unwrap(m.added_rows_count) + Unwrap(m.existing_rows_count) - Unwrap(m.deleted_rows_count)

RECURSIVE SumLiveRows(_)
SumLiveRows(S) ==
    IF S = {} THEN 0
    ELSE LET i == CHOOSE x \in S : TRUE
         IN LiveRows(manifests[i]) + SumLiveRows(S \ {i})

\* C1: in a scan with a non-empty filter list, a file read from a surviving
\* manifest is in the plan's file groups if and only if its data-file
\* pruning result is true; files pruned to false are dropped.
C1_PrunedFilesDropped ==
    (op = "scan" /\ ~filters_empty) =>
        \A i \in 1..Len(files_ret) :
            (GroupOccurrences(files_ret[i].file_path) > 0) <=> files_to_prune[i]

\* C2: files(Some(filter)) with one flag per manifest returns every entry of
\* each manifest flagged true and no entry of a manifest flagged false;
\* files(None) returns the entries of every manifest.
C2_FilesReturnsFlaggedManifests ==
    (op = "files" /\ (IsSome(filter) => Len(Unwrap(filter)) = Len(manifests))) =>
        /\ \A i \in 1..Len(manifests) : \A k \in 1..Len(manifests[i].entries) :
             Occurrences(files_ret, manifests[i].entries[k]) =
                IF IsSome(filter) /\ ~Unwrap(filter)[i] THEN 0 ELSE 1
        /\ Range(files_ret) \subseteq Range(AllEntries(manifests))

C2_Witness ==
    /\ op = "files"
    /\ IsSome(filter)
    /\ Len(manifests) = 2
    /\ Unwrap(filter) = <<FALSE, TRUE>>
    /\ Len(files_ret) = 2

\* C3: after fast_append commits, files(None) lists the data files in commit
\* order, and the files of one commit in the order they were passed.
C3_FilesInCommitOrder ==
    (op = "files" /\ ~IsSome(filter)) =>
        /\ Range(PathsOf(files_ret)) \subseteq Range(appended)
        /\ \A i, j \in 1..Len(files_ret) :
             i < j => CommitPosition(files_ret[i].file_path) < CommitPosition(files_ret[j].file_path)

C3_Witness ==
    /\ op = "files"
    /\ ~IsSome(filter)
    /\ Len(manifests) = 2
    /\ Len(files_ret) = 4
    /\ \A i \in 1..Len(files_ret) : files_ret[i].status = Added

\* C4: a scan with an empty filter list prunes nothing: every entry of every
\* manifest of the table is in exactly one file group of the plan.
C4_EmptyFilterKeepsAll ==
    (op = "scan" /\ filters_empty) =>
        \A i \in 1..Len(manifests) : \A k \in 1..Len(manifests[i].entries) :
            GroupOccurrences(manifests[i].entries[k].file_path) = 1

C4_Witness ==
    /\ op = "scan"
    /\ filters_empty
    /\ Len(manifests) = 2
    /\ Len(plan.file_groups) = 2
    /\ Len(files_ret) >= 3

\* C5: the file groups partition the files the scan kept by partition-value
\* tuple: each kept file is in exactly one group, the files of a group have
\* the same ordered tuple, and no two groups have the same tuple.
C5_GroupsPartitionByTuple ==
    op = "scan" =>
        /\ \A i \in 1..Len(files_ret) :
             GroupOccurrences(files_ret[i].file_path) = IF i \in SurvivingFiles THEN 1 ELSE 0
        /\ \A g \in 1..Len(plan.file_groups) :
             /\ plan.file_groups[g] # <<>>
             /\ \A k \in 1..Len(plan.file_groups[g]) :
                  EntryAt(plan.file_groups[g][k].location).partition_values =
                    EntryAt(plan.file_groups[g][1].location).partition_values
        /\ \A g, h \in 1..Len(plan.file_groups) :
             g # h => EntryAt(plan.file_groups[g][1].location).partition_values #
                        EntryAt(plan.file_groups[h][1].location).partition_values

C5_Witness ==
    /\ op = "scan"
    /\ ~filters_empty
    /\ Len(plan.file_groups) = 2
    /\ \E g \in 1..Len(plan.file_groups) : Len(plan.file_groups[g]) = 2
    /\ Cardinality(SurvivingFiles) < Len(files_ret)

\* C6: num_rows of the plan is the sum over the manifests that survive
\* manifest pruning of added_rows_count + existing_rows_count -
\* deleted_rows_count (unknown when one of the counts is null).
C6_NumRowsIsLiveRowSum ==
    op = "scan" =>
        plan.num_rows =
            IF \A i \in SurvivingManifests : CountsKnown(manifests[i])
            THEN Some(SumLiveRows(SurvivingManifests))
            ELSE NoneOpt

\* C7: when a manifest contributing to the statistics has a null row count
\* the plan's statistics are not marked exact.
C7_NullCountNotExact ==
    (op = "scan" /\ \E i \in SurvivingManifests : ~CountsKnown(manifests[i])) =>
        ~plan.is_exact

\* The object-store calls of a filesystem commit, in program order.
FsCalls(w) ==
    << <<"put", fs_temp(w)>>,
       <<"copy_if_not_exists", fs_temp(w), fs_final(w)>>,
       <<"delete", fs_temp(w)>> >>

IsPrefix(s, t) == Len(s) <= Len(t) /\ SubSeq(t, 1, Len(s)) = s

FinalPaths == {final_path(l, 1) : l \in Locations}

\* C8: the filesystem commit calls put(temp), copy_if_not_exists(temp,
\* final), delete(temp) in this order; a copy onto an existing versioned
\* file makes the commit fail, and an existing versioned file never changes.
C8_FsCommitOrderAndConflict ==
    [][ /\ \A w \in Writers :
             /\ IsPrefix(oplog'[w], FsCalls(w)')
             /\ (result'[w] = "Ok" => oplog'[w] = FsCalls(w)')
             /\ (Len(oplog[w]) = 1 /\ Len(oplog'[w]) = 2 /\ IsSome(store[fs_final(w)]))
                   => (result'[w] = "Err" /\ pc'[w] = "failed")
        /\ \A p \in FinalPaths : IsSome(store[p]) => store'[p] = store[p]
      ]_vars

C8_Witness ==
    \E w \in Writers :
        /\ pc[w] = "failed"
        /\ oplog[w] = SubSeq(FsCalls(w), 1, 2)
        /\ IsSome(store[fs_final(w)])
        /\ store[fs_final(w)] # Some(builder[w].metadata)

C10_RegisterAfterWrite ==
    /\ \A i \in Identifiers :
         IsSome(catalog[i]) => IsSome(store[Unwrap(catalog[i])])
    /\ \A w \in Writers :
         (builder[w].table_type = "Metastore" /\ pc[w] \in {"cancelled", "failed"}) =>
            \A i \in Identifiers : catalog[i] # Some(ms_path(w))

C10_Witness ==
    \E w \in Writers :
        /\ pc[w] = "cancelled"
        /\ IsSome(store[ms_path(w)])
        /\ \E v \in Writers : pc[v] = "done" /\ catalog[builder[v].identifier] = Some(ms_path(v))

\* C11: a Namespace built by try_new or empty has no level equal to the
\* empty string: try_new returns an error whenever some level of its input
\* is the empty string, and on success levels() is the input unchanged.
C11_NoEmptyLevel ==
    /\ fn = "try_new" =>
         /\ (\E i \in DOMAIN arg : arg[i] = "") => ~ret.ok
         /\ ret.ok => \A i \in DOMAIN ret.val.levels : ret.val.levels[i] # ""
    /\ fn = "empty" => \A i \in DOMAIN ret.levels : ret.levels[i] # ""
    /\ fn = "try_new.levels" => ret = arg

C11_Witness == fn = "try_new.levels" /\ Len(arg) = 2 /\ arg[1] # arg[2]

\* C12: try_new called with an empty sequence of levels returns no
\* Namespace, so every Namespace returned by try_new has len() >= 1.
C12_TryNewNeverEmpty ==
    /\ fn = "try_new" /\ arg = <<>> => ~ret.ok
    /\ fn = "try_new.len" => ret >= 1

\* C13: a ManifestEntry of any status, with snapshot_id and sequence_number
\* null or set, written under the manifest-entry schema of the partition
\* spec and read back is equal to the original in status, snapshot_id,
\* sequence_number and data_file.
C13_ManifestEntryRoundTrip ==
    /\ fn = "write_manifest" /\ arg.keys = DOMAIN HeaderText => ret.ok
    /\ fn = "read_manifest_entry" /\ Len(arg.entries) = 1 =>
         /\ ret.ok
         /\ ret.val.status = arg.entries[1].status
         /\ ret.val.snapshot_id = arg.entries[1].snapshot_id
         /\ ret.val.sequence_number = arg.entries[1].sequence_number
         /\ ret.val.data_file = arg.entries[1].data_file

C13_Witness ==
    /\ fn = "read_manifest_entry"
    /\ Len(arg.entries) = 1
    /\ arg.entries[1].status = Deleted
    /\ arg.entries[1].snapshot_id = NoneOpt
    /\ arg.entries[1].sequence_number = Some(-2147483647)
    /\ ret.ok

\* C14: read_manifest gives access to all n >= 1 entries of the manifest in
\* the order written, not only to the first.
C14_AllEntriesReturned ==
    fn = "read_manifest" /\ ret.ok => <<ret.val.entry>> = arg.entries

\* The field of Metadata that holds the string stored under a header key.
MetadataField(metadata, key) ==
    CASE key = "schema" -> Some(metadata.schema)
      [] key = "schema-id" -> metadata.schema_id
      [] key = "partition-spec" -> metadata.partition_spec
      [] key = "partition-spec-id" -> metadata.partition_spec_id
      [] key = "format-version" -> metadata.format_version
      [] key = "content" -> metadata.content

\* C15: read_metadata returns for each of the six header keys exactly the
\* string written under it, and None for each optional key not written.
C15_HeaderRoundTrip ==
    fn = "read_metadata" /\ "schema" \in arg.keys =>
        /\ ret.ok
        /\ \A key \in DOMAIN HeaderText :
             MetadataField(ret.val, key) =
                IF key \in arg.keys THEN Some(HeaderText[key]) ELSE NoneOpt

C15_Witness ==
    /\ fn = "read_metadata"
    /\ arg.keys = {"schema", "partition-spec-id", "content"}
    /\ ret.ok
    /\ ret.val.schema_id = NoneOpt

\* C16: a manifest whose header has no schema key is not read: the result
\* is an error and no Manifest, whichever other keys are present; the
\* absence of any other key never causes an error.
C16_SchemaKeyRequired ==
    /\ fn \in {"read_manifest", "read_metadata"} /\ "schema" \notin arg.keys =>
         ~ret.ok
    /\ fn = "read_metadata" /\ "schema" \in arg.keys => ret.ok
    /\ fn = "read_manifest" /\ "schema" \in arg.keys /\ arg.entries # <<>> =>
         ret.ok

C16_Witness ==
    /\ fn = "read_manifest"
    /\ arg.keys = DOMAIN HeaderText \ {"schema"}
    /\ arg.entries # <<>>
    /\ ~ret.ok

DistinctNames(spec) ==
    \A i, j \in DOMAIN spec.fields :
        i # j => spec.fields[i].name # spec.fields[j].name

\* The Display text of the type of the column a partition field reads.
ColumnType(field) ==
    Unwrap(Struct_get(PartitionTableSchema.struct_fields, field.source_id)).field_type

ValueType(value) ==
    CASE value.t = "Int" -> "int"
      [] value.t = "Long" -> "long"
      [] value.t = "String" -> "string"

\* Every value of the input is null or of the type its schema field has.
FitsSchema(input) ==
    \A i \in DOMAIN input.values :
        IsSome(input.values[i]) =>
            ValueType(Unwrap(input.values[i])) = ColumnType(input.spec.fields[i])

FieldTexts(text) == SelectSeq(text, LAMBDA piece : piece.tok = "field")

\* C18: PartitionValues::schema emits exactly one nullable field per
\* partition field, in spec order, named with the partition field's name;
\* when the source_id of a partition field is not a column of the table
\* schema it returns an error and no schema.
C18_OneFieldPerPartitionField ==
    fn = "schema" =>
        /\ ret.ok <=>
             \A i \in DOMAIN arg.spec.fields :
                IsSome(Struct_get(PartitionTableSchema.struct_fields,
                                  arg.spec.fields[i].source_id))
        /\ ret.ok =>
             /\ WellFormed(ret.val)
             /\ Len(FieldTexts(ret.val)) = Len(arg.spec.fields)
             /\ \A i \in DOMAIN arg.spec.fields :
                  FieldTexts(ret.val)[i].name = arg.spec.fields[i].name

C18_Witness ==
    /\ fn = "schema"
    /\ Len(arg.spec.fields) = 2
    /\ arg.spec.fields[1].name = "q"
    /\ arg.spec.fields[2].name = "p"
    /\ ret.ok

\* The result type of a transform applied to a column type: identity keeps
\* the type, bucket gives an int.
result_type(transform, source_type) ==
    CASE transform = "identity" -> source_type
      [] transform = "bucket" -> "int"

\* C19: in the partition record schema the type T of each field's union
\* [null, T] is the result type of the field's transform applied to the type
\* of the source column, not the source column's own type.
C19_FieldTypeIsTransformResult ==
    fn = "schema" /\ ret.ok =>
        \A i \in DOMAIN arg.spec.fields :
            FieldTexts(ret.val)[i].type =
                result_type(arg.spec.fields[i].transform,
                            ColumnType(arg.spec.fields[i]))

\* C20: a ManifestFile, with each optional field null or set and any list
\* of FieldSummary, written under ManifestFile::schema() and read back is
\* equal to the original in every field.
C20_ManifestListRoundTrip ==
    /\ fn = "write_manifest_list" => ret.ok
    /\ fn = "read_manifest_list" =>
         /\ ret.ok
         /\ \A name \in DOMAIN arg.file : ret.val[name] = arg.file[name]
         /\ DOMAIN ret.val = DOMAIN arg.file

C20_Witness ==
    /\ fn = "read_manifest_list"
    /\ ret.ok
    /\ arg.file.content = Some(EqualityDeletes)
    /\ arg.file.existing_rows_count = Some(8000)
    /\ IsSome(arg.file.partitions)
    /\ Len(Unwrap(arg.file.partitions)) = 2
    /\ Unwrap(arg.file.partitions)[1].lower_bound = Some(<<1>>)
    /\ Unwrap(arg.file.partitions)[2].contains_nan = NoneOpt

\* C25: scan planning never places a manifest entry whose status is deleted
\* into the plan's file groups: every file of file_groups comes from an
\* entry with status existing or added.
C25_NoDeletedEntryInPlan ==
    op = "scan" =>
        \A g \in 1..Len(plan.file_groups) : \A k \in 1..Len(plan.file_groups[g]) :
            EntryAt(plan.file_groups[g][k].location).status \in {Existing, Added}

\* C26: files(Some(filter)) with fewer flags than the table has manifests
\* still returns the entries of the manifests beyond the filter's length.
C26_ShortFilterKeepsManifests ==
    (op = "files" /\ IsSome(filter)) =>
        \A i \in 1..Len(manifests) :
            i > Len(Unwrap(filter)) =>
                Range(manifests[i].entries) \subseteq Range(files_ret)

\* C29: in every PartitionValues built by from_iter the name lookup is a
\* bijection between the field names and the indices 0..n-1 of the value
\* vector, also when the input repeats a name, so that serialization finds
\* a name for every index and does not fail.
C29_LookupIsBijection ==
    fn = "to_value" =>
        LET self == partition_values(arg)
        IN  /\ \A i \in 0..(Len(self.fields) - 1) : Cardinality(KeysAt(self, i)) = 1
            /\ Cardinality(DOMAIN self.lookup) = Len(self.fields)
            /\ ~Panics(ret)

\* C30: read_manifest on a manifest with the full header and no entries
\* returns the header; it does not return an error.
C30_EmptyManifestReadable ==
    fn = "read_manifest" /\ arg.keys = DOMAIN HeaderText /\ arg.entries = <<>> =>
        ret.ok

\* The document holds one Version, created by operation create, that is its
\* current version and the only entry of its version log.
SingleInitialVersion(metadata) ==
    /\ Len(metadata.versions) = 1
    /\ metadata.versions[1].summary.operation = "create"
    /\ metadata.current_version_id = metadata.versions[1].version_id
    /\ Len(metadata.version_log) = 1
    /\ metadata.version_log[1].version_id = metadata.current_version_id

\* C21: every metadata document built by ViewBuilder (metastore or
\* filesystem), and every document a commit wrote, holds a single initial
\* Version whose summary operation is create, current_version_id equal to
\* that version's version_id, and a version_log of exactly one entry whose
\* version_id is current_version_id.
C21_SingleInitialVersion ==
    /\ \A w \in Writers : pc[w] # "new" => SingleInitialVersion(builder[w].metadata)
    /\ \A p \in Paths : IsSome(store[p]) => SingleInitialVersion(Unwrap(store[p]))
    /\ \A w \in Writers : IsSome(view[w]) => SingleInitialVersion(Unwrap(view[w]))

C21_Witness ==
    \E w1, w2 \in Writers :
        /\ builder[w1].table_type = "FileSystem"
        /\ builder[w2].table_type = "Metastore"
        /\ pc[w1] = "done"
        /\ pc[w2] = "done"
        /\ IsSome(view[w1])
        /\ IsSome(view[w2])

\* C28: for every schema passed to ViewBuilder, the current_schema_id of
\* the built metadata is the schema_id of a schema in its schemas list.
C28_CurrentSchemaResolves ==
    \A w \in Writers :
        pc[w] # "new" =>
            LET metadata == builder[w].metadata
            IN  /\ IsSome(metadata.current_schema_id)
                /\ IsSome(metadata.schemas)
                /\ \E i \in DOMAIN Unwrap(metadata.schemas) :
                     Unwrap(metadata.schemas)[i].schema_id =
                        Unwrap(metadata.current_schema_id)

\* The commit of writer w made a call that follows the copy, so its
\* copy_if_not_exists succeeded.
CopySucceeded(w) ==
    \E i \in DOMAIN oplog[w] : oplog[w][i][1] \in {"delete", "load"}

\* C27: if the filesystem commit returns an error, the versioned file was
\* not published by this commit: in no run does copy_if_not_exists succeed
\* and the commit still report failure.
C27_ErrMeansNotPublished ==
    \A w \in Writers :
        result[w] = "Err" =>
            ~(CopySucceeded(w) /\ store[fs_final(w)] = Some(builder[w].metadata))

\* The snapshots of the table that transaction t or, for t = 0, another
\* writer committed.
SnapshotsOf(t) ==
    {i \in DOMAIN table.snapshots : table.snapshots[i].snapshot_id[1] = t}

\* C22: after any sequence of successful commits the snapshots of the table
\* are totally ordered by sequence_number: the parent of every non-root
\* snapshot is a snapshot of the table with a strictly smaller
\* sequence_number, no two snapshots share a sequence_number, and the newest
\* one carries last_sequence_number.
C22_SnapshotsTotallyOrdered ==
    /\ \A i \in DOMAIN table.snapshots :
         /\ table.snapshots[i].sequence_number <= table.last_sequence_number
         /\ IsSome(table.snapshots[i].parent_snapshot_id) =>
              \E j \in DOMAIN table.snapshots :
                /\ table.snapshots[j].snapshot_id =
                       Unwrap(table.snapshots[i].parent_snapshot_id)
                /\ table.snapshots[j].sequence_number <
                       table.snapshots[i].sequence_number
    /\ \A i, j \in DOMAIN table.snapshots :
         i # j => table.snapshots[i].sequence_number #
                      table.snapshots[j].sequence_number
    /\ table.snapshots # <<>> =>
         table.snapshots[Len(table.snapshots)].sequence_number =
             table.last_sequence_number

\* Two transactions and another writer have each committed a snapshot.
C22_Witness ==
    /\ Len(table.snapshots) >= 3
    /\ SnapshotsOf(0) # {}
    /\ SnapshotsOf(1) # {}
    /\ SnapshotsOf(2) # {}

\* C23: a commit that has started ends in success or in an error; it makes
\* at most MaxAttempts attempts; CommitConflict is returned only after the
\* last attempt; a transaction that has failed makes no further step and
\* none of its snapshots is in the table the catalog points at.
C23_CommitTerminates ==
    /\ [](\A t \in Transactions :
            /\ txn[t].attempts <= MaxAttempts
            /\ txn[t].result = "CommitConflict" => txn[t].attempts = MaxAttempts
            /\ txn[t].pc = "failed" => SnapshotsOf(t) = {})
    /\ [][\A t \in Transactions :
            txn[t].pc = "failed" => txn'[t] = txn[t]]_vars
    /\ \A t \in Transactions :
         (txn[t].pc = "staged") ~> (txn[t].pc \in {"done", "failed"})

\* A transaction has lost its last attempt to the commits of others and
\* returned CommitConflict.
C23_Witness ==
    \E t \in Transactions :
      /\ txn[t].result = "CommitConflict"
      /\ txn[t].attempts = MaxAttempts
      /\ Len(table.snapshots) >= MaxAttempts

\* C24: when two transactions have both committed, the current snapshot
\* lists both appended files; and when they are the only writers of the
\* table, as they are when both started from the base of a new table and no
\* one else committed, the table has exactly two new snapshots, one of them
\* the parent of the other.
C24_NoAppendLost ==
    \A t1, t2 \in Transactions :
      ( /\ t1 # t2
        /\ txn[t1].result = "Ok"
        /\ txn[t2].result = "Ok" ) =>
          /\ \E i, j \in DOMAIN current_manifests(table) :
               /\ current_manifests(table)[i] = <<t1>>
               /\ current_manifests(table)[j] = <<t2>>
          /\ SnapshotsOf(t1) \cup SnapshotsOf(t2) = DOMAIN table.snapshots =>
               /\ Len(table.snapshots) = 2
               /\ \E i \in SnapshotsOf(t1), j \in SnapshotsOf(t2) :
                    \/ table.snapshots[i].parent_snapshot_id =
                           Some(table.snapshots[j].snapshot_id)
                    \/ table.snapshots[j].parent_snapshot_id =
                           Some(table.snapshots[i].snapshot_id)

\* Both transactions read the same base, the one that lost the swap made a
\* second attempt and both have committed, with no other writer.
C24_Witness ==
    /\ txn[1].result = "Ok"
    /\ txn[2].result = "Ok"
    /\ txn[1].attempts + txn[2].attempts = 3
    /\ Len(table.snapshots) = 2

====
